---- MODULE Spec2Model ----
(***************************************************************************)
(* QueryDiversityEngine (src/src/util/notifications/ErrorReportingWebhook.ts,*)
(* lines 350-822): the aggregator, its per-source cache and its adapters,  *)
(* as a state machine.  One engine instance, a clock, and the callers of   *)
(* fetchQueries; every await of the code is a point where another caller,  *)
(* clearCache() or the clock may act.  Spec and SpecCascade have one       *)
(* caller, SpecOverlap has two callers whose calls may overlap.            *)
(* SpecConstruct applies the constructor to caller-supplied arguments,     *)
(* SpecExtract applies the adapters' extraction functions to response      *)
(* bodies, SpecTransport runs fetchHttp, and SpecReport runs                *)
(* sendErrorReport (lines 46-309).  SpecLive adds fairness to the          *)
(* one-caller engine, SpecRace notes the calls clearCache() overtakes,     *)
(* SpecInterleave runs interleaveQueries and the tail of fetchQueries,     *)
(* and SpecAlias keeps the cached arrays as objects.  SpecSocket and       *)
(* SpecLogView are the dashboard page's WebSocket and log view             *)
(* (src/unnamed/part_000).                                                 *)
(***************************************************************************)
EXTENDS Integers, Sequences, FiniteSets, TLC

VARIABLES
    config,     \* this.config, fixed by the constructor
    newsApiKey, \* process.env.NEWS_API_KEY is set
    cache,      \* this.cache: source name -> [queries, expires]
    now,        \* Date.now(), in milliseconds
    calls,      \* one record per fetchQueries caller
    stored,     \* history: when each source's list was last stored, while that is
                \* less than cacheMinutes ago and no clearCache() came since (else -1)
    construction, \* the arguments of the last constructor call
    extraction,   \* a response body and what an adapter extracts from it
    report,       \* one sendErrorReport call
    transport,    \* one fetchHttp call
    interleaving, \* one application of interleaveQueries and of lines 434-447
    socket,       \* the dashboard page's WebSocket connection and its reconnects
    logView,      \* the dashboard page's log list and its rendering
    arrays        \* the array objects of one fetchQueries call served from the cache

engine == <<config, newsApiKey, cache, now, calls, stored>>
others ==
    <<construction, extraction, report, transport, interleaving, socket, logView, arrays>>
vars ==
    << config, newsApiKey, cache, now, calls, stored,
       construction, extraction, report, transport, interleaving, socket, logView, arrays >>

----------------------------------------------------------------------------
(* Bounds of the model *)

\* The clock advances in whole minutes, at most this many times.
MaxTicks == 2
\* shuffleArray is explored for the rotations by 0..MaxShift and the reversal.
MaxShift == 1
\* A subreddit listing has at most this many posts.
MaxListing == 3
\* A regional item lies under at most this many nested containers of its card.
MaxDepth == 2
MaxFragments == 2
\* interleaveQueries is applied to lists of at most this many queries.
MaxQueries == 5
\* The dashboard page creates at most this many WebSocket objects.
MaxSockets == 12
\* The dashboard page handles at most this many log operations, and an init
\* message carries this many log records.
MaxOps == 4
Burst == 250

(* Program constants *)
MsPerMinute == 60000
MinCount == 1
MaxCount == 200
MinPerSource == 1
MaxPerSource == 50
DefaultPerSource == 10
MinCacheMinutes == 1
MaxCacheMinutes == 1440
DefaultCacheMinutes == 30
LocalSample == 20
TrendsCap == 20
ScrapeCap == 10

\* Inputs of fetchQueries.
CountChoices == {0, 2, 5, 31, 201}

\* Constructor arguments; 0 stands for a missing (or zero) value.
RawPerSourceChoices == {0, 1, 2}
RawCacheMinutesChoices == {1, 2}

\* The configured source lists explored: by Spec, by SpecCascade (the three
\* sources of the fallback cascade) and by SpecOverlap (two concurrent callers).
SourceLists ==
    { <<"local-fallback">>,
      <<"google-trends", "local-fallback">>,
      <<"cn-news", "reddit">>,
      <<"news", "wikipedia">>,
      <<"reddit", "reddit">> }
CascadeLists == { <<"google-trends", "cn-news", "local-fallback">> }
RaceLists == { <<"reddit", "reddit">>, <<"cn-news", "cn-news">> }
LiveLists == { <<"cn-news", "local-fallback">>, <<"news", "reddit">> }
OverlapLists == { <<"reddit">>, <<"cn-news">>, <<"local-fallback">> }

\* What a transport request can produce: a rejection, a body the adapter
\* cannot parse, or a body from which the adapter extracts these candidates.
Payloads == { <<>>, <<"q1", "q2">>, <<"q3", "q3", "q1">> }
Responses ==
    {[kind |-> k, items |-> <<>>] : k \in {"throw", "garbage"}}
        \cup {[kind |-> "ok", items |-> p] : p \in Payloads}

----------------------------------------------------------------------------
(* Helpers *)

Min(a, b) == IF a < b THEN a ELSE b
Max(a, b) == IF a > b THEN a ELSE b

Elems(seq) == {seq[i] : i \in 1..Len(seq)}

\* Array.prototype.slice(0, n), negative n counting from the end.
Slice(seq, n) ==
    LET stop == IF n < 0 THEN Max(Len(seq) + n, 0) ELSE Min(n, Len(seq))
    IN  SubSeq(seq, 1, stop)

RECURSIVE Reverse(_)
Reverse(seq) == IF seq = <<>> THEN <<>> ELSE Append(Reverse(Tail(seq)), Head(seq))

Rotate(seq, k) == SubSeq(seq, k + 1, Len(seq)) \o SubSeq(seq, 1, k)

\* Util.shuffleArray: a permutation of a copy of the array.
shuffleArray(seq) ==
    {Rotate(seq, k) : k \in 0..Min(MaxShift, Max(Len(seq) - 1, 0))} \cup {Reverse(seq)}

fallback ==
    << "weather forecast", "news today", "stock market", "sports scores",
       "movie reviews", "recipes", "travel destinations", "health tips",
       "technology news", "best restaurants near me", "how to cook pasta",
       "python tutorial", "world events", "climate change", "electric vehicles",
       "space exploration", "artificial intelligence", "cryptocurrency",
       "gaming news", "fashion trends", "fitness workout", "home improvement",
       "gardening tips", "pet care", "book recommendations", "music charts",
       "streaming shows", "historical events", "science discoveries",
       "education resources" >>

\* Faulty variant: the slice is one short.
getLocalFallbackShort(count) == {Slice(p, count - 1) : p \in shuffleArray(fallback)}

\* getLocalFallback(count): the possible results.
getLocalFallback(count) == {Slice(p, count) : p \in shuffleArray(fallback)}

----------------------------------------------------------------------------
(* Constructor *)

ClampPerSource(raw) ==
    Max(MinPerSource, Min(IF raw = 0 THEN DefaultPerSource ELSE raw, MaxPerSource))

ClampCacheMinutes(raw) ==
    Max(MinCacheMinutes, Min(IF raw = 0 THEN DefaultCacheMinutes ELSE raw, MaxCacheMinutes))

\* A number the caller passed in the config object, or none.
Given(v) == [given |-> TRUE, value |-> v]
Missing == [given |-> FALSE, value |-> 0]

\* The left operand of || as the clamps read it: undefined is falsy like 0.
Raw(arg) == IF arg.given THEN arg.value ELSE 0

\* new QueryDiversityEngine(): no config object.
NoArguments ==
    [ sources |-> <<>>, deduplicate |-> TRUE,
      maxQueriesPerSource |-> Missing, cacheMinutes |-> Missing ]

\* The config objects the constructor is explored with; sources <<>> stands
\* for a missing or empty list.
ArgumentChoices ==
    [ sources             : {<<>>, <<"reddit">>},
      deduplicate         : BOOLEAN,
      maxQueriesPerSource : {Missing} \cup {Given(v) : v \in {-1, 0, 1, 2, 10, 50, 51}},
      cacheMinutes        : {Missing} \cup {Given(v) : v \in {-1, 0, 1, 30, 1440, 1441}} ]

Constructor(sources, dedup, mix, rawPerSource, rawCacheMinutes) ==
    [ sources             |-> IF Len(sources) > 0 THEN sources
                              ELSE <<"google-trends", "reddit", "local-fallback">>,
      deduplicate         |-> dedup,
      mixStrategies       |-> mix,
      maxQueriesPerSource |-> ClampPerSource(rawPerSource),
      cacheMinutes        |-> ClampCacheMinutes(rawCacheMinutes) ]

----------------------------------------------------------------------------
(* fetchQueries: the pure steps *)

\* Faulty variant: no lower clamp.
ValidCountNoFloor(count) == Min(count, MaxCount)

ValidCount(count) == Max(MinCount, Min(count, MaxCount))

\* Faulty variant: the last occurrence of a value is kept instead of the first.
RECURSIVE DedupKeepLast(_)
DedupKeepLast(seq) ==
    IF seq = <<>> THEN <<>>
    ELSE IF Head(seq) \in Elems(Tail(seq)) THEN DedupKeepLast(Tail(seq))
    ELSE <<Head(seq)>> \o DedupKeepLast(Tail(seq))

\* Array.from(new Set(allQueries)): a Set keeps insertion order.
RECURSIVE Dedup(_)
Dedup(seq) ==
    IF seq = <<>> THEN <<>>
    ELSE LET init == Dedup(SubSeq(seq, 1, Len(seq) - 1))
             last == seq[Len(seq)]
         IN  IF last \in Elems(init) THEN init ELSE Append(init, last)

\* The loop of interleaveQueries; i and sourceIndex count from 0 as in the code.
RECURSIVE InterleaveLoop(_, _, _, _, _, _, _)
InterleaveLoop(queries, targetCount, chunkSize, sourceCount, i, sourceIndex, result) ==
    IF ~(i < Len(queries) /\ Len(result) < targetCount) THEN result
    ELSE LET currentChunkStart == sourceIndex * chunkSize
             currentChunkEnd   == currentChunkStart + chunkSize
             query             == queries[i + 1]
             pushed == IF query # "" /\ i >= currentChunkStart /\ i < currentChunkEnd
                       THEN Append(result, query) ELSE result
             next   == IF i = currentChunkEnd - 1
                       THEN (sourceIndex + 1) % sourceCount ELSE sourceIndex
         IN  InterleaveLoop(queries, targetCount, chunkSize, sourceCount, i + 1, next, pushed)

\* Faulty variant: only the first source's chunk is copied.
interleaveQueriesFirstChunk(queries, targetCount, cfg) ==
    IF Len(cfg.sources) = 0 \/ Len(queries) = 0
    THEN Slice(queries, targetCount)
    ELSE Slice(InterleaveLoop(queries, targetCount, cfg.maxQueriesPerSource,
                              1, 0, 0, <<>>), targetCount)

\* interleaveQueries, lines 775-802.
interleaveQueries(queries, targetCount, cfg) ==
    IF Len(cfg.sources) = 0 \/ Len(queries) = 0
    THEN Slice(queries, targetCount)
    ELSE Slice(InterleaveLoop(queries, targetCount, cfg.maxQueriesPerSource,
                              Len(cfg.sources), 0, 0, <<>>), targetCount)

\* Faulty variant: the cap is one short.
CappedShort(queries, cfg) == Slice(queries, cfg.maxQueriesPerSource - 1)

\* Faulty variant: the whole list is taken.
CappedNever(queries, cfg) == queries

\* Faulty variant: the last maxQueriesPerSource elements are taken.
CappedLast(queries, cfg) ==
    SubSeq(queries, Max(1, Len(queries) - cfg.maxQueriesPerSource + 1), Len(queries))

\* Line 427: queries.slice(0, maxQueriesPerSource).
Capped(queries, cfg) == Slice(queries, cfg.maxQueriesPerSource)

\* Line 434.
Deduplicated(cfg, allQueries) ==
    IF cfg.deduplicate THEN Dedup(allQueries) ELSE allQueries

\* Lines 436-438.
Mixed(cfg, final, validCount) ==
    IF cfg.mixStrategies /\ Len(cfg.sources) > 1
    THEN interleaveQueries(final, validCount, cfg) ELSE final

\* Faulty variant: the shuffled list is not truncated.
ShuffledUncut(final, validCount) == shuffleArray(final)

\* Line 440: the possible results of the shuffle and truncation.
ShuffledAndCut(final, validCount) ==
    {Slice(p, validCount) : p \in shuffleArray(final)}

\* Faulty variant: the empty result is returned as it is.
ResolvedNoFallback(final, local) == final

\* Lines 442-447: the local fallback list replaces an empty result.
Resolved(final, local) == IF Len(final) = 0 THEN local ELSE final

----------------------------------------------------------------------------
(* Cache *)

\* Faulty variant: a cached list is never read.
CacheFreshNever(t, entry) == FALSE

\* Faulty variant: an entry is still read at its expiry instant.
CacheFreshLax(t, entry) == t <= entry.expires

\* Line 457.
CacheFresh(t, entry) == t < entry.expires

\* Faulty variant: an entry is kept at its expiry instant.
cleanExpiredCacheLate(c, t) ==
    [s \in {k \in DOMAIN c : ~(t > c[k].expires)} |-> c[s]]

\* cleanExpiredCache at time t.
cleanExpiredCache(c, t) ==
    [s \in {k \in DOMAIN c : ~(t >= c[k].expires)} |-> c[s]]

\* Faulty variant: the entry's lifetime is not added.
CacheSetNoTtl(c, s, queries, t, cfg) ==
    [k \in DOMAIN c \cup {s} |->
        IF k = s THEN [queries |-> queries, expires |-> t] ELSE c[k]]

\* Lines 491-496: cache.set at time t.
CacheSet(c, s, queries, t, cfg) ==
    [k \in DOMAIN c \cup {s} |->
        IF k = s THEN [queries |-> queries, expires |-> t + cfg.cacheMinutes * MsPerMinute]
        ELSE c[k]]

----------------------------------------------------------------------------
(* Source adapters.  A step is one transport request in flight; the adapter *)
(* either issues its next request or returns a list to getFromSource.       *)

RemoteSources == {"google-trends", "reddit", "news", "cn-news", "wikipedia"}
SourceNames == RemoteSources \cup {"local-fallback"}

\* The first request an adapter sends.
FirstStep(source, key) ==
    CASE source = "google-trends" -> "trends"
      [] source = "reddit"        -> "reddit"
      [] source = "wikipedia"     -> "wikipedia"
      [] source = "news"          -> IF key THEN "newsApi" ELSE "newsScrape"
      [] source = "cn-news"       -> "cn1"

Return(queries) == [next |-> "return", queries |-> queries]
Request(step) == [next |-> step, queries |-> <<>>]
\* The adapter's promise rejects.
Raise == [next |-> "raise", queries |-> <<>>]

\* Faulty variant: a rejected request is not caught by the adapter.
SimpleAdapterUncaught(step, resp) ==
    IF resp.kind = "throw" THEN Raise
    ELSE IF resp.kind = "garbage" THEN Return(<<>>)
    ELSE IF step = "trends" THEN Return(Slice(resp.items, TrendsCap))
    ELSE Return(resp.items)

\* fetchGoogleTrends, fetchReddit, fetchWikipedia: one request, catch-all.
SimpleAdapter(step, resp) ==
    IF resp.kind \in {"throw", "garbage"} THEN Return(<<>>)
    ELSE IF step = "trends" THEN Return(Slice(resp.items, TrendsCap))
    ELSE Return(resp.items)

\* Faulty variant: a failed API request ends the adapter with no scraping.
NewsApiNoFallback(resp) ==
    IF resp.kind \in {"throw", "garbage"} THEN Return(<<>>) ELSE Return(resp.items)

\* fetchNews with an API key: any failure goes to fetchNewsFallback.
NewsApi(resp) ==
    IF resp.kind \in {"throw", "garbage"} THEN Request("newsScrape") ELSE Return(resp.items)

\* Faulty variant: a rejected request is sent once more.
NewsScrapeRetry(resp) ==
    IF resp.kind = "throw" THEN Request("newsScrape")
    ELSE IF resp.kind = "garbage" THEN Return(<<>>)
    ELSE Return(Slice(resp.items, ScrapeCap))

\* fetchNewsFallback.
NewsScrape(resp) ==
    IF resp.kind \in {"throw", "garbage"} THEN Return(<<>>)
    ELSE Return(Slice(resp.items, ScrapeCap))

\* Faulty variant: a rejected request is treated like an unusable body.
CnNewsKeepsGoing(step, resp, cfg) ==
    IF step = "cnHtml"
    THEN IF resp.kind # "ok" THEN Return(<<>>)
         ELSE Return(Slice(Dedup(resp.items), cfg.maxQueriesPerSource))
    ELSE IF resp.kind = "ok" /\ Len(resp.items) > 0
         THEN Return(Slice(resp.items, cfg.maxQueriesPerSource))
    ELSE Request(IF step = "cn1" THEN "cn2" ELSE "cnHtml")

\* Faulty variant: the HTML page is requested again until it yields a list.
CnNewsRescrapes(step, resp, cfg) ==
    IF resp.kind = "throw" THEN Return(<<>>)
    ELSE IF step = "cnHtml"
         THEN IF resp.kind = "garbage" \/ Len(resp.items) = 0 THEN Request("cnHtml")
              ELSE Return(Slice(Dedup(resp.items), cfg.maxQueriesPerSource))
    ELSE IF resp.kind = "ok" /\ Len(resp.items) > 0
         THEN Return(Slice(resp.items, cfg.maxQueriesPerSource))
    ELSE Request(IF step = "cn1" THEN "cn2" ELSE "cnHtml")

\* fetchCnNews: a rejected request leaves the adapter through its catch.
CnNews(step, resp, cfg) ==
    IF resp.kind = "throw" THEN Return(<<>>)
    ELSE IF step = "cnHtml"
         THEN IF resp.kind = "garbage" THEN Return(<<>>)
              ELSE Return(Slice(Dedup(resp.items), cfg.maxQueriesPerSource))
    ELSE IF resp.kind = "ok" /\ Len(resp.items) > 0
         THEN Return(Slice(resp.items, cfg.maxQueriesPerSource))
    ELSE Request(IF step = "cn1" THEN "cn2" ELSE "cnHtml")

AdapterNext(step, resp, cfg) ==
    CASE step \in {"trends", "reddit", "wikipedia"} -> SimpleAdapter(step, resp)
      [] step = "newsApi"                           -> NewsApi(resp)
      [] step = "newsScrape"                        -> NewsScrape(resp)
      [] step \in {"cn1", "cn2", "cnHtml"}          -> CnNews(step, resp, cfg)

----------------------------------------------------------------------------
(* Response bodies and what the adapters extract from them.  A JSON value   *)
(* is a record tagged with its type; an object is the sequence of its       *)
(* members in insertion order.  A text of n characters stands for any       *)
(* string whose length is n.                                                *)

JValue(t, s, a, o) == [t |-> t, s |-> s, a |-> a, o |-> o]
JUndefined == JValue("undefined", "", <<>>, <<>>)
JNull == JValue("null", "", <<>>, <<>>)
JStr(s) == JValue("string", s, <<>>, <<>>)
JArr(a) == JValue("array", "", a, <<>>)
JObj(o) == JValue("object", "", <<>>, o)
Member(k, v) == [k |-> k, v |-> v]

\* Reading a property of null or undefined is a TypeError.
Nullish(v) == v.t \in {"null", "undefined"}
Truthy(v) == ~Nullish(v) /\ ~(v.t = "string" /\ v.s = "")
Or(v, w) == IF Truthy(v) THEN v ELSE w
IsArray(v) == v.t = "array"

\* v[key] and v?.[key] of a value that is not null or undefined.
Get(v, key) ==
    IF v.t = "object" /\ \E i \in 1..Len(v.o) : v.o[i].k = key
    THEN v.o[CHOOSE i \in 1..Len(v.o) : v.o[i].k = key].v
    ELSE JUndefined

\* Object.values(v).
Values(v) ==
    IF v.t = "object" THEN [i \in 1..Len(v.o) |-> v.o[i].v]
    ELSE IF v.t = "array" THEN v.a ELSE <<>>

RECURSIVE Text(_)
Text(n) == IF n = 0 THEN "" ELSE "x" \o Text(n - 1)

StartsWith(s, prefix) == Len(s) >= Len(prefix) /\ SubSeq(s, 1, Len(prefix)) = prefix

\* What an extraction function yields unless it throws.
Extracted(queries) == [threw |-> FALSE, queries |-> queries]
Thrown == [threw |-> TRUE, queries |-> <<>>]

\* The adapter's catch: return [].
Caught(r) == IF r.threw THEN <<>> ELSE r.queries

\* The strings among the values, in order.
Strings(values) ==
    LET strs == SelectSeq(values, LAMBDA v : v.t = "string")
    IN  [i \in 1..Len(strs) |-> strs[i].s]

\* Faulty variant: a title of 10 characters is kept.
RedditKeepsFrom10(title) == title # "" /\ Len(title) >= 10 /\ Len(title) < 100

\* Line 540.
RedditKeeps(title) == title # "" /\ Len(title) > 10 /\ Len(title) < 100

\* fetchReddit, lines 534-545.
extractReddit(body) ==
    IF ~body.well \/ Nullish(body.json) THEN Thrown
    ELSE LET posts == Or(Get(Get(body.json, "data"), "children"), JArr(<<>>))
         IN  IF posts.t = "object" \/ \E i \in 1..Len(posts.a) : Nullish(posts.a[i])
             THEN Thrown
             ELSE Extracted(SelectSeq(
                      Strings([i \in 1..Len(posts.a) |->
                                  Get(Get(posts.a[i], "data"), "title")]),
                      RedditKeeps))

\* fetchGoogleTrends, lines 507-519.
extractTrends(body) ==
    IF ~body.well \/ Nullish(body.json) \/ Nullish(Get(body.json, "default")) THEN Thrown
    ELSE LET days == Or(Get(Get(body.json, "default"), "trendingSearchesDays"), JArr(<<>>))
             searchesOf(day) == Or(Get(day, "trendingSearches"), JArr(<<>>))
             queriesOf(day) ==
                 SelectSeq(Strings([j \in 1..Len(searchesOf(day).a) |->
                               Get(Get(searchesOf(day).a[j], "title"), "query")]),
                           LAMBDA q : q # "")
             all[i \in 0..Len(days.a)] ==
                 IF i = 0 THEN <<>> ELSE all[i - 1] \o queriesOf(days.a[i])
         IN  IF \/ days.t = "object"
                \/ \E i \in 1..Len(days.a) :
                      \/ Nullish(days.a[i])
                      \/ searchesOf(days.a[i]).t = "object"
                      \/ \E j \in 1..Len(searchesOf(days.a[i]).a) :
                            Nullish(searchesOf(days.a[i]).a[j])
             THEN Thrown
             ELSE Extracted(Slice(all[Len(days.a)], TrendsCap))

\* The titles of an array of objects: arr.map(x => x.title).
TitlesOf(arr) == Strings([i \in 1..Len(arr.a) |-> Get(arr.a[i], "title")])
MapThrows(arr) == ~IsArray(arr) \/ \E i \in 1..Len(arr.a) : Nullish(arr.a[i])

\* fetchNews, lines 562-564.
extractNewsApi(body) ==
    IF ~body.well \/ Nullish(body.json) THEN Thrown
    ELSE LET articles == Or(Get(body.json, "articles"), JArr(<<>>))
         IN  IF MapThrows(articles) THEN Thrown
             ELSE Extracted(SelectSeq(TitlesOf(articles), LAMBDA t : t # "" /\ Len(t) > 10))

\* Faulty variant: a title of 3 characters is kept.
extractWikipediaFrom3(body) ==
    IF ~body.well \/ Nullish(body.json) THEN Thrown
    ELSE LET pages == Or(Get(Get(body.json, "query"), "random"), JArr(<<>>))
         IN  IF MapThrows(pages) THEN Thrown
             ELSE Extracted(SelectSeq(TitlesOf(pages), LAMBDA t : t # "" /\ Len(t) >= 3))

\* fetchWikipedia, lines 723-725.
extractWikipedia(body) ==
    IF ~body.well \/ Nullish(body.json) THEN Thrown
    ELSE LET pages == Or(Get(Get(body.json, "query"), "random"), JArr(<<>>))
         IN  IF MapThrows(pages) THEN Thrown
             ELSE Extracted(SelectSeq(TitlesOf(pages), LAMBDA t : t # "" /\ Len(t) > 3))

\* fetchNewsFallback, lines 576-586; the body is given by the texts of its
\* <h3> elements, tags removed and trimmed.
extractNewsFallback(body) ==
    Extracted(Slice(SelectSeq(Strings(body.json.a),
                              LAMBDA t : t # "" /\ Len(t) > 10 /\ Len(t) < 100),
                    ScrapeCap))

\* extractCnNewsFromHtml; the body is given by the texts the two patterns
\* capture, tags removed and trimmed.
extractCnNewsFromHtml(body) ==
    Extracted(Dedup(SelectSeq(Strings(body.json.a),
                              LAMBDA t : t # "" /\ Len(t) > 2 /\ Len(t) < 100)))

\* [x.content, x.items, x.list, x.data].filter(Array.isArray).flat()
Containers(x) ==
    LET arrayAt(key) == IF IsArray(Get(x, key)) THEN Get(x, key).a ELSE <<>>
    IN  arrayAt("content") \o arrayAt("items") \o arrayAt("list") \o arrayAt("data")

RECURSIVE unwrapCnNewsContainer(_), UnwrapAll(_), UnwrapThrows(_)
\* nestedArrays.flatMap(nested => unwrapCnNewsContainer(nested))
UnwrapAll(entries) ==
    IF entries = <<>> THEN <<>>
    ELSE unwrapCnNewsContainer(Head(entries)) \o UnwrapAll(Tail(entries))

unwrapCnNewsContainer(entry) ==
    IF Len(Containers(entry)) > 0 THEN UnwrapAll(Containers(entry)) ELSE <<entry>>

\* An entry reached by the unwrapping is null.
UnwrapThrows(entry) ==
    \/ Nullish(entry)
    \/ \E i \in 1..Len(Containers(entry)) : UnwrapThrows(Containers(entry)[i])

candidates ==
    << "query", "word", "keyword", "title", "name", "raw_title", "display_name",
       "show", "topic", "hotWord", "hotWordShort", "desc" >>

\* Lines 699, 706, 713: a string longer than 2 and shorter than 100.
UsableTitle(v) == v.t = "string" /\ Len(v.s) > 2 /\ Len(v.s) < 100

\* The first element satisfying the test, or undefined.
First(values, Test(_)) ==
    IF \E i \in 1..Len(values) : Test(values[i])
    THEN values[CHOOSE i \in 1..Len(values) :
                    Test(values[i]) /\ \A j \in 1..(i - 1) : ~Test(values[j])]
    ELSE JUndefined

\* pickCnNewsTitle of an item that is not null.
pickCnNewsTitle(item) ==
    LET nestedOf(value) ==
            First([i \in 1..Len(candidates) |-> Get(value, candidates[i])], UsableTitle)
        probe(key) ==
            LET value == Get(item, key)
            IN  IF UsableTitle(value) THEN value
                ELSE IF value.t \in {"object", "array"} THEN nestedOf(value)
                ELSE JUndefined
        probed == First([i \in 1..Len(candidates) |-> probe(candidates[i])],
                        LAMBDA v : v.t = "string")
    IN  IF probed.t = "string" THEN probed
        ELSE First(Values(item), LAMBDA v : UsableTitle(v) /\ ~StartsWith(v.s, "http"))

\* extractCnNewsFromJson, lines 636-659.
extractCnNewsFromJson(body) ==
    IF ~body.well THEN Thrown
    ELSE LET data  == Get(body.json, "data")
             cards == Or(Get(data, "cards"), Or(Get(data, "cardList"), JArr(<<>>)))
             entries[i \in 0..Len(cards.a)] ==
                 IF i = 0 THEN <<>> ELSE entries[i - 1] \o Containers(cards.a[i])
             flat  == entries[Len(cards.a)]
             items == UnwrapAll(flat)
             listFallback ==
                 Or(Get(data, "list"), Or(Get(data, "items"),
                    Or(Get(Get(data, "currentBoard"), "list"), JArr(<<>>))))
             combinedItems == IF Len(items) > 0 THEN JArr(items) ELSE listFallback
             picked ==
                 [i \in 1..Len(combinedItems.a) |-> pickCnNewsTitle(combinedItems.a[i])]
         IN  IF \/ ~IsArray(cards)
                \/ \E i \in 1..Len(cards.a) : Nullish(cards.a[i])
                \/ \E i \in 1..Len(flat) : UnwrapThrows(flat[i])
             THEN Thrown
             ELSE IF MapThrows(combinedItems) THEN Thrown
             ELSE Extracted(SelectSeq(Strings(picked),
                                      LAMBDA t : t # "" /\ Len(t) > 2 /\ Len(t) < 100))

(* The response bodies explored. *)

Body(json) == [well |-> TRUE, json |-> json]
\* A body JSON.parse rejects.
Malformed == [well |-> FALSE, json |-> JNull]

\* All sequences of at most n elements of S.
SeqsUpTo(S, n) == UNION {[1..k -> S] : k \in 0..n}

TitleObject(title) == JObj(<<Member("title", JStr(title))>>)
TitleObjects(titles) == JArr([i \in 1..Len(titles) |-> TitleObject(titles[i])])

\* A subreddit listing with the given post titles; "" is a post without title.
Post(title) == JObj(<<Member("data", TitleObject(title))>>)
Listing(titles) ==
    Body(JObj(<<Member("data", JObj(<<Member("children",
                   JArr([i \in 1..Len(titles) |-> Post(titles[i])]))>>))>>))
RedditTitles == {Text(n) : n \in {0, 10, 11, 99, 100}}
RedditBodies ==
    {Listing(titles) : titles \in SeqsUpTo(RedditTitles, MaxListing)}
        \cup { Malformed, Body(JNull), Body(JObj(<<>>)),
               Body(JObj(<<Member("data", JObj(<<Member("children", JObj(<<>>))>>))>>)),
               Body(JObj(<<Member("data", JObj(<<Member("children",
                        JArr(<<Post(Text(11)), JNull>>))>>))>>)) }

\* A card whose leaf item {key: title} lies under the container keys of path.
RECURSIVE Nested(_, _)
Nested(path, leaf) ==
    IF path = <<>> THEN leaf
    ELSE JObj(<<Member(Head(path), JArr(<<Nested(Tail(path), leaf)>>))>>)
Leaf(key, title) == JObj(<<Member(key, JStr(title))>>)
CnCards(path, key, title) ==
    Body(JObj(<<Member("data", JObj(<<Member("cards",
                   JArr(<<Nested(path, Leaf(key, title))>>))>>))>>))
ContainerKeys == {"content", "items", "list", "data"}
CnPaths == UNION {[1..k -> ContainerKeys] : k \in 1..MaxDepth}
CnKeys == {"title", "hotWord", "url"}
CnTitles == {Text(n) : n \in {2, 3, 99, 100}} \cup {"http://a.b"}
CnJsonBodies ==
    {CnCards(path, key, title) : path \in CnPaths, key \in CnKeys, title \in CnTitles}
        \cup {Body(JObj(<<Member("data", JObj(<<Member("list",
                        JArr(<<Leaf("word", title)>>))>>))>>)) : title \in CnTitles}
        \cup { Malformed, Body(JNull),
               Body(JObj(<<Member("data", JObj(<<Member("cards", JStr("none"))>>))>>)),
               Body(JObj(<<Member("data", JObj(<<Member("cards", JArr(<<JNull>>))>>))>>)),
               Body(JObj(<<Member("data", JObj(<<Member("cards",
                        JArr(<<Nested(<<"content", "items">>, JNull)>>))>>))>>)),
               Body(JObj(<<Member("data", JObj(<<Member("list", JArr(<<JNull>>))>>))>>)) }

\* Bodies of the other adapters: lists of at most two titles.
OtherTitles == {Text(n) : n \in {0, 3, 4, 10, 11, 100}}
TitleLists == SeqsUpTo(OtherTitles, 2)
TrendsBody(titles) ==
    Body(JObj(<<Member("default", JObj(<<Member("trendingSearchesDays",
        JArr(<<JObj(<<Member("trendingSearches",
            JArr([i \in 1..Len(titles) |->
                     JObj(<<Member("title", JObj(<<Member("query", JStr(titles[i]))>>))>>)]))>>)>>))>>))>>))
TrendsBodies ==
    {TrendsBody(titles) : titles \in TitleLists} \cup {Malformed, Body(JObj(<<>>))}
NewsApiBodies ==
    {Body(JObj(<<Member("articles", TitleObjects(titles))>>)) : titles \in TitleLists}
        \cup {Malformed, Body(JObj(<<Member("articles", JObj(<<>>))>>))}
WikipediaBodies ==
    {Body(JObj(<<Member("query", JObj(<<Member("random", TitleObjects(titles))>>))>>)) :
        titles \in TitleLists}
        \cup {Malformed, Body(JObj(<<Member("query", JObj(<<Member("random", JArr(<<JNull>>))>>))>>))}
\* The texts captured from an HTML page.
Captures(titles) == Body(JArr([i \in 1..Len(titles) |-> JStr(titles[i])]))
HtmlTitles == OtherTitles \cup {"http://a.b"}
HtmlBodies == {Captures(titles) : titles \in SeqsUpTo(HtmlTitles, 2)}

----------------------------------------------------------------------------
(* sendErrorReport (lines 46-309).  A line of text is the sequence of its   *)
(* blank-separated fragments, in lower case; a stack is a sequence of       *)
(* lines.  The fragments below are the kinds of text sanitize tells apart.  *)

Email == "user@example.com"
WindowsPath == "c:\\users\\bob\\bot.js"
HomePath == "/home/bob/bot/index.js"
OtherPath == "/opt/bot/dist/index.js"
IpAddress == "192.168.1.10"
Token == "abcdefghijklmnopqrstuvwxyz0123"
Fragments ==
    { Email, WindowsPath, HomePath, OtherPath, IpAddress, Token,
      "crashed", "login", "failed", "net::err_aborted" }

\* The characters at which the last segment of the Windows path pattern stops.
PathStops == {"\\", "/", ":", "*", "?", "\"", "<", ">", "|"}
HasPathStop(f) == \E i \in 1..Len(f) : SubSeq(f, i, i) \in PathStops

\* The position of the first of PathStops in f.
FirstStop(f) ==
    CHOOSE i \in 1..Len(f) :
        /\ SubSeq(f, i, i) \in PathStops
        /\ \A j \in 1..(i - 1) : SubSeq(f, j, j) \notin PathStops

\* Line 165: the pattern's last segment also takes the text that follows the
\* path on its line, up to the next of PathStops; of a Windows path that follows
\* it takes the drive letter, and the rest of that path stays.
RECURSIVE RedactWindowsPaths(_, _)
RedactWindowsPaths(line, taking) ==
    IF line = <<>> THEN <<>>
    ELSE LET f == Head(line)
         IN  IF taking /\ ~HasPathStop(f) THEN RedactWindowsPaths(Tail(line), TRUE)
             ELSE IF taking
                  THEN <<SubSeq(f, FirstStop(f), Len(f))>>
                           \o RedactWindowsPaths(Tail(line), FALSE)
             ELSE IF f = WindowsPath
                  THEN <<"[PATH_REDACTED]">> \o RedactWindowsPaths(Tail(line), TRUE)
             ELSE <<f>> \o RedactWindowsPaths(Tail(line), FALSE)

\* Lines 163, 166, 168, 170: one fragment.
Redact(f) ==
    CASE f = HomePath  -> "[PATH_REDACTED]"
      [] f = IpAddress -> "[IP_REDACTED]"
      [] f = Token     -> "[TOKEN_REDACTED]"
      [] OTHER         -> f

\* sanitize, lines 160-171, of one line.
sanitize(line) ==
    LET emails == [i \in 1..Len(line) |->
                      IF line[i] = Email THEN "[EMAIL_REDACTED]" ELSE line[i]]
        paths  == RedactWindowsPaths(emails, FALSE)
    IN  [i \in 1..Len(paths) |-> Redact(paths[i])]

\* The line as one string.
RECURSIVE Join(_)
Join(line) ==
    IF line = <<>> THEN ""
    ELSE IF Len(line) = 1 THEN line[1]
    ELSE line[1] \o " " \o Join(Tail(line))

\* String.prototype.slice(0, n) of a line, for whole fragments.
RECURSIVE SliceLine(_, _)
SliceLine(line, n) ==
    IF Len(Join(line)) <= n THEN line ELSE SliceLine(SubSeq(line, 1, Len(line) - 1), n)

\* String.prototype.slice(0, n) of lines joined by line breaks.
RECURSIVE SliceLines(_, _)
SliceLines(lines, n) ==
    IF lines = <<>> \/ n <= 0 THEN <<>>
    ELSE IF Len(Join(Head(lines))) >= n THEN <<SliceLine(Head(lines), n)>>
    ELSE <<Head(lines)>> \o SliceLines(Tail(lines), n - Len(Join(Head(lines))) - 1)

\* A pattern a.*b.*c is the sequence of its literal pieces; it matches when
\* the pieces occur in the string in this order, without overlap.
RECURSIVE MatchesFrom(_, _, _)
MatchesFrom(pieces, s, from) ==
    \/ pieces = <<>>
    \/ \E i \in from..(Len(s) - Len(Head(pieces)) + 1) :
          /\ SubSeq(s, i, i + Len(Head(pieces)) - 1) = Head(pieces)
          /\ MatchesFrom(Tail(pieces), s, i + Len(Head(pieces)))

userConfigPatterns ==
    { <<"accounts.jsonc", "not found">>, <<"config.jsonc", "not found">>,
      <<"invalid", "credentials">>, <<"login", "failed">>, <<"authentication", "failed">>,
      <<"proxy", "connection", "failed">>, <<"totp", "invalid">>, <<"2fa", "failed">>,
      <<"incorrect", "password">>, <<"account", "suspended">>, <<"account", "banned">>,
      <<"no", "accounts", "enabled">>, <<"invalid", "configuration">>,
      <<"missing", "required", "field">>, <<"port", "already", "in", "use">>,
      <<"eaddrinuse">>, <<"rebrowser-patches", "cannot get world">>,
      <<"session closed", "rebrowser">>,
      <<"addscripttoevaluateonnewdocument", "session closed">>,
      <<"password", "incorrect">>, <<"email", "not", "found">>, <<"account", "locked">> }

expectedErrorPatterns ==
    { <<"no", "points", "to", "earn">>, <<"already", "completed">>,
      <<"activity", "not", "available">>, <<"daily", "limit", "reached">>,
      <<"quest", "not", "found">>, <<"promotion", "expired">>,
      <<"target page", "context", "browser", "been closed">>,
      <<"page", "has been closed">>, <<"context", "has been closed">>,
      <<"browser", "has been closed">>, <<"execution context was destroyed">>,
      <<"frame was detached">>, <<"navigation", "cancelled">>,
      <<"timeout", "exceeded">>, <<"waiting", "failed", "timeout">>,
      <<"net::err_aborted">>, <<"net::err_connection_refused">>,
      <<"net::err_name_not_resolved">> }

\* Faulty variant: the expected errors are not filtered out.
shouldReportErrorConfigOnly(errorMessage) ==
    ~\E pattern \in userConfigPatterns : MatchesFrom(pattern, errorMessage, 1)

\* shouldReportError of the lower-cased message.
shouldReportError(errorMessage) ==
    ~\E pattern \in userConfigPatterns \cup expectedErrorPatterns :
        MatchesFrom(pattern, errorMessage, 1)

\* Faulty variant: the flag is not read.
DisabledNever(enabled) == FALSE

\* Line 132: config.errorReporting?.enabled === false.
Disabled(enabled) == enabled = "false"

Field(name, value) == [name |-> name, value |-> value]
NoPayload == [description |-> <<>>, fields |-> <<>>]

\* additionalContext[key], or <<>> when there is no such key.
ContextValue(context, key) ==
    IF \E i \in 1..Len(context) : context[i].key = key
    THEN context[CHOOSE i \in 1..Len(context) : context[i].key = key].value
    ELSE <<>>

\* Lines 278-288: a field per entry of additionalContext while there are
\* fewer than 25 fields, its value String(value).slice(0, 1024).
RECURSIVE WithContextFields(_, _)
WithContextFields(fields, context) ==
    IF context = <<>> THEN fields
    ELSE WithContextFields(
             IF Len(fields) < 25
             THEN Append(fields, Field(Head(context).key,
                                       <<SliceLine(Head(context).value, 1024)>>))
             ELSE fields,
             Tail(context))

\* Lines 173-294: the body posted to the webhook, on a Linux host outside
\* Docker.  The values of version, node version and timestamp do not come from
\* the error.  Object.assign (line 200) puts the sanitized platform entry of
\* additionalContext over process.platform; botMode is read before that.
discordPayload(message, stack, context) ==
    LET sanitizedMessage == sanitize(message)
        sanitizedStack   == Slice([i \in 1..Len(stack) |-> sanitize(stack[i])], 10)
        platform         == ContextValue(context, "platform")
        botMode          == IF platform # <<>> THEN platform ELSE <<"UNKNOWN">>
        osPlatform       == IF platform # <<>> THEN sanitize(platform) ELSE <<"linux">>
        base == << Field("version", <<<<"v1">>>>),
                   Field("bot mode", <<botMode>>),
                   Field("os platform", <<osPlatform \o <<"x64">>>>),
                   Field("node.js", <<<<"v20">>>>),
                   Field("timestamp", <<<<"date">>>>) >>
        withStack == IF sanitizedStack # <<>>
                     THEN Append(base, Field("stack trace", SliceLines(sanitizedStack, 900)))
                     ELSE base
    IN  [ description |-> SliceLine(sanitizedMessage, 700),
          fields      |-> WithContextFields(withStack, context) ]

----------------------------------------------------------------------------
(* fetchHttp (lines 395-415) *)

\* The locators the adapters pass to fetchHttp.
Urls ==
    { "https://trends.google.com/trends/api/dailytrends?geo=US",
      "https://www.reddit.com/r/news/hot.json?limit=15",
      "https://newsapi.org/v2/top-headlines?country=us&pageSize=15&apiKey=k",
      "https://www.bbc.com/news",
      "https://top.baidu.com/api/board?platform=wise&tab=realtime",
      "https://top.baidu.com/api/board?platform=pc&tab=realtime",
      "https://top.baidu.com/board?tab=realtime",
      "https://en.wikipedia.org/w/api.php?action=query&list=random&rnnamespace=0&rnlimit=15&format=json" }

DefaultTimeout == 10000

\* The second argument of fetchHttp; "" and 0 stand for a missing member.
NoOptions == [method |-> "", referer |-> "", timeout |-> 0]
OptionChoices ==
    { NoOptions,
      [method |-> "", referer |-> "https://top.baidu.com/", timeout |-> 8000],
      [method |-> "POST", referer |-> "", timeout |-> 8000] }

\* Lines 402-408: the request handed to the HTTP client.
RequestOf(url, options) ==
    [ url     |-> url,
      method  |-> IF options.method # "" THEN options.method ELSE "GET",
      headers |-> IF options.referer # "" THEN <<"User-Agent", "Referer">>
                  ELSE <<"User-Agent">>,
      timeout |-> IF options.timeout # 0 THEN options.timeout ELSE DefaultTimeout ]

\* What the client rejects with: an Error, or a value that is not an Error.
ErrorValue(message) == [isError |-> TRUE, message |-> message]
ThrownValue(text) == [isError |-> FALSE, message |-> text]
NoError == [isError |-> FALSE, message |-> ""]
Rejections ==
    { ErrorValue("timeout of 8000ms exceeded"),
      ErrorValue("Request failed with status code 500"),
      ThrownValue("socket hang up") }

\* What the client resolves with as response.data.
ResponseData ==
    { JStr(""), JStr("<h3>headline</h3>"), JNull,
      JObj(<<Member("data", JArr(<<JStr("a"), JStr("b")>>))>>) }

\* JSON.stringify of a value made of objects, arrays, strings and null.
RECURSIVE Stringify(_), StringifyAll(_, _)
StringifyAll(values, members) ==
    IF values = <<>> THEN ""
    ELSE LET v    == Head(values)
             text == IF members THEN "\"" \o v.k \o "\":" \o Stringify(v.v)
                     ELSE Stringify(v)
         IN  IF Len(values) = 1 THEN text
             ELSE text \o "," \o StringifyAll(Tail(values), members)

Stringify(v) ==
    CASE v.t = "string" -> "\"" \o v.s \o "\""
      [] v.t = "array"  -> "[" \o StringifyAll(v.a, FALSE) \o "]"
      [] v.t = "object" -> "{" \o StringifyAll(v.o, TRUE) \o "}"
      [] OTHER          -> "null"

\* Line 409.
ResponseText(data) == IF data.t = "string" THEN data.s ELSE Stringify(data)

\* Lines 411-412: the entry handed to this.log.
FailureEntry(url, error) ==
    [ source  |-> "QUERY-FETCH",
      message |-> "HTTP request failed for " \o url \o ": " \o error.message,
      level   |-> "error" ]

\* Faulty variant: the error is wrapped in a new one.
RethrownWrapped(error) == ErrorValue("TransportError: " \o error.message)

\* Line 413: throw error.
Rethrown(error) == error

\* One call of fetchHttp: its arguments, the requests it handed to the
\* client, what the client settled with (data or cause), the entries handed to
\* this.log, and what the call returned or raised.
NoTransport ==
    [ pc |-> "none", url |-> "", options |-> NoOptions, requests |-> <<>>,
      data |-> JUndefined, cause |-> NoError, log |-> <<>>,
      returned |-> "", raised |-> NoError ]

----------------------------------------------------------------------------
(* State *)

\* One application of interleaveQueries (out) and of lines 421 and 434-447
\* (result) to a list of queries.
NoInterleaving ==
    [ pc |-> "none", queries |-> <<>>, targetCount |-> 0, out |-> <<>>,
      count |-> 0, deduped |-> <<>>, result |-> <<>> ]
\* The dashboard page's connection state: state.ws (an index into the
\* sockets the page has created, 0 for null), state.reconnectAttempts, the
\* pending setTimeout(initWebSocket) timers with their delays, the
\* connection indicator and whether the give-up toast was shown.  Each
\* socket records its readiness and how many timers its events have set.
NoSocket ==
    [ pc |-> "none", ws |-> 0, reconnectAttempts |-> 0, sockets |-> <<>>,
      timers |-> <<>>, connected |-> FALSE, toast |-> FALSE, unsocketed |-> 0,
      tried |-> 0, errors |-> 0 ]
\* The dashboard page's log view: state.logs and the rendered entries of
\* #logsContainer (each by its level), the placeholder shown when the list
\* is empty, state.currentLogFilter, and whether the page has the container
\* and the filter select at all.
NoLogView ==
    [ pc |-> "none", hasContainer |-> FALSE, hasFilter |-> FALSE, logs |-> <<>>,
      children |-> <<>>, placeholder |-> FALSE, currentLogFilter |-> "all",
      ops |-> 0 ]
\* One fetchQueries call whose lookups are all cache hits: the cached lists
\* before it, allQueries when it returns, and what it returned.
NoArrays ==
    [ pc |-> "none", before |-> <<>>, allQueries |-> <<>>, result |-> <<>>,
      count |-> 0, inPlace |-> FALSE ]

NoExtraction ==
    [adapter |-> "none", body |-> Malformed, done |-> FALSE, threw |-> FALSE, out |-> <<>>]
\* One call of sendErrorReport: its arguments, where it is, and what it posted.
NoReport ==
    [pc |-> "none", enabled |-> "undefined", message |-> <<>>, stack |-> <<>>,
     context |-> <<>>, posts |-> 0, posted |-> NoPayload, filtered |-> FALSE,
     outcome |-> "none"]

EmptyCache == [s \in {} |-> [queries |-> <<>>, expires |-> 0]]

\* History of a caller's current source lookup: when it was made, what it
\* found, the adapter invocations it caused, the requests sent (urls), how
\* the request on which the adapter returned had settled (ended), the
\* entries its cleaning step removed (evicted), the sources named by the
\* warn-level entries that getFromSource and fetchQueries handed to this.log
\* (warned), and whether clearCache() ran while its adapter was awaited
\* (cleared).
NoLookup ==
    [ at |-> -1, requests |-> 0, fresh |-> FALSE, stale |-> FALSE, hit |-> FALSE,
      invoked |-> 0, urls |-> <<>>, ended |-> "none", evicted |-> {}, warned |-> {},
      cleared |-> FALSE ]

IdleCall ==
    [ pc |-> "idle", count |-> 0, validCount |-> 0, idx |-> 0, allQueries |-> <<>>,
      step |-> "none", pending |-> <<>>, result |-> <<>>,
      parts |-> <<>>, threw |-> {}, deduped |-> <<>>, selected |-> <<>>,
      fellBack |-> FALSE, warnedFallback |-> FALSE, lk |-> NoLookup,
      started |-> <<>>, inflight |-> 0, escaped |-> {}, raced |-> {} ]

NewCall == [IdleCall EXCEPT !.pc = "run", !.idx = 1]

\* The value a resolved call hands to its caller is observed in the call's
\* record and dropped before the engine's next step.
Quiet == \A c \in DOMAIN calls : calls[c].pc # "done"

ClockSkews == {0, MsPerMinute}

Configs(lists) ==
    { Constructor(s, d, m, p, cm) :
        s \in lists, d \in BOOLEAN, m \in BOOLEAN,
        p \in RawPerSourceChoices, cm \in RawCacheMinutesChoices }

\* With concurrent callers only the cache lifetime is varied.
OverlapConfigs ==
    { Constructor(s, TRUE, TRUE, 2, cm) :
        s \in OverlapLists, cm \in RawCacheMinutesChoices }

\* A new engine with one of the configurations, used by the given callers.
\* The API key is read by the news adapter only.
InitWith(configs, callers) ==
    /\ config \in configs
    /\ newsApiKey \in (IF "news" \in Elems(config.sources) THEN BOOLEAN ELSE {FALSE})
    /\ cache = EmptyCache
    /\ now = 0
    /\ calls = [c \in callers |-> IdleCall]
    /\ stored = [s \in SourceNames |-> -1]
    /\ construction = NoArguments
    /\ extraction = NoExtraction
    /\ report = NoReport
    /\ transport = NoTransport
    /\ interleaving = NoInterleaving
    /\ socket = NoSocket
    /\ logView = NoLogView
    /\ arrays = NoArrays

Init == InitWith(Configs(SourceLists), {"c1"})
LiveCallers == {"c1"}
InitLive ==
    InitWith({Constructor(s, TRUE, m, 2, 1) : s \in LiveLists, m \in BOOLEAN}, LiveCallers)
InitCascade == InitWith(Configs(CascadeLists), {"c1"})
InitOverlap == InitWith(OverlapConfigs, {"c1", "c2"})

\* Faulty variant: an empty list is returned without a warning.
NoQueriesWarningNever(source, queries) == {}

\* Lines 487-489: the sources named by the warn-level entry of getFromSource.
NoQueriesWarning(source, queries) == IF Len(queries) = 0 THEN {source} ELSE {}

\* Lines 442-443: the warn-level entry before the local fallback list.
FallbackWarning(final) == Len(final) = 0

\* Faulty variant: the list the adapter returned is not stored.
StoreNever(c, s, queries, t, cfg) == c

\* Faulty variant: the list is stored whether or not it is empty.
StoreAlways(c, s, queries, t, cfg) == CacheSet(c, s, queries, t, cfg)

\* Lines 487-498: a non-empty list is stored, an empty one is not.
Store(c, s, queries, t, cfg) ==
    IF Len(queries) > 0 THEN CacheSet(c, s, queries, t, cfg) ELSE c

StoredAt(st, s, queries, t) ==
    IF Len(queries) > 0 THEN [st EXCEPT ![s] = t] ELSE st

\* The history forgets a store once cacheMinutes have passed since.
Forget(st, t) ==
    [s \in DOMAIN st |->
        IF st[s] >= 0 /\ t >= st[s] + config.cacheMinutes * MsPerMinute THEN -1 ELSE st[s]]

\* getFromSource up to its first await, for the source at call.idx.  The clock
\* is read at line 815 and again at line 457, and may advance in between.
GetFromSource(c, call) ==
    \E skew \in ClockSkews :
        LET tClean  == now
            tCheck  == now + skew
            s       == config.sources[call.idx]
            cleaned == cleanExpiredCache(cache, tClean)
            hit     == s \in DOMAIN cleaned /\ CacheFresh(tCheck, cleaned[s])
            st      == Forget(stored, tCheck)
            lk      == [ at       |-> tCheck,
                         requests |-> 0,
                         fresh    |-> Forget(stored, tCheck)[s] >= 0,
                         stale    |-> s \in DOMAIN cache /\ tCheck >= cache[s].expires,
                         hit      |-> hit,
                         invoked  |-> 0,
                         urls     |-> <<>>,
                         ended    |-> "none",
                         evicted  |-> DOMAIN cache \ DOMAIN cleaned,
                         warned   |-> {},
                         cleared  |-> FALSE ]
            begun   == [call EXCEPT !.started = Append(@, call.idx)]
        IN  /\ tCheck <= MaxTicks * MsPerMinute
            /\ now' = tCheck
            /\ IF hit
               THEN /\ cache' = cleaned
                    /\ stored' = st
                    /\ calls' = [calls EXCEPT ![c] =
                          [begun EXCEPT !.pc = "resume", !.pending = cleaned[s].queries,
                                        !.lk = lk]]
               ELSE IF s = "local-fallback"
               THEN \E q \in getLocalFallback(LocalSample) :
                    /\ cache' = Store(cleaned, s, q, tCheck, config)
                    /\ stored' = StoredAt(st, s, q, tCheck)
                    /\ calls' = [calls EXCEPT ![c] =
                          [begun EXCEPT !.pc = "resume", !.pending = q,
                                        !.lk = [lk EXCEPT !.invoked = 1,
                                                  !.warned = NoQueriesWarning(s, q)]]]
               ELSE IF s \in RemoteSources
               THEN /\ cache' = cleaned
                    /\ stored' = st
                    /\ calls' = [calls EXCEPT ![c] =
                          [begun EXCEPT !.pc = "http", !.step = FirstStep(s, newsApiKey),
                                        !.inflight = @ + 1,
                                        !.lk = [lk EXCEPT !.requests = 1, !.invoked = 1,
                                                  !.urls = <<FirstStep(s, newsApiKey)>>]]]
               ELSE /\ cache' = cleaned
                    /\ stored' = st
                    /\ calls' = [calls EXCEPT ![c] =
                          [begun EXCEPT !.pc = "resume", !.pending = <<>>,
                                        !.lk = [lk EXCEPT !.warned =
                                                  NoQueriesWarning(s, <<>>)]]]

\* Lines 434-447, after the last source.  count is read here for the first
\* time (validCount, line 421, is used from line 437 on), so it is drawn here.
Finish(c, call) ==
    \E count \in CountChoices :
    LET validCount == ValidCount(count)
        deduped    == Deduplicated(config, call.allQueries)
        selected   == Mixed(config, deduped, validCount)
    IN  \E final \in ShuffledAndCut(selected, validCount) :
        \E local \in (IF Len(final) = 0 THEN getLocalFallback(validCount) ELSE {<<>>}) :
            /\ calls' = [calls EXCEPT ![c] =
                  [call EXCEPT !.pc = "done", !.count = count, !.validCount = validCount,
                               !.deduped = deduped, !.selected = selected,
                               !.fellBack = (Len(final) = 0),
                               !.warnedFallback = FallbackWarning(final),
                               !.result = Resolved(final, local),
                               !.lk = NoLookup]]
            /\ UNCHANGED <<cache, now, stored>>

----------------------------------------------------------------------------
(* Actions *)

\* fetchQueries(count) is called: lines 420-426 up to the first await.
StartFetch(c) ==
    /\ Quiet
    /\ calls[c].pc = "idle"
    /\ GetFromSource(c, NewCall)
    /\ UNCHANGED <<config, newsApiKey>>
    /\ UNCHANGED others

\* The transport request of caller c settles; the adapter continues, and when
\* it returns getFromSource runs lines 487-498.  Were the adapter to reject,
\* getFromSource would reject too and fetchQueries would catch it (lines
\* 428-431) and go on with the next source.
HttpResolve(c, resp) ==
    LET call == calls[c]
        s    == config.sources[call.idx]
        r    == AdapterNext(call.step, resp, config)
        thr  == IF resp.kind = "throw" THEN call.threw \cup {call.idx} ELSE call.threw
        seen == [call.lk EXCEPT !.ended = resp.kind]
    IN  /\ Quiet
        /\ call.pc = "http"
        /\ call.inflight > 0
        /\ IF r.next = "raise"
           THEN /\ calls' = [calls EXCEPT ![c] =
                      [call EXCEPT !.pc = "resume", !.step = "none", !.threw = thr,
                                   !.pending = <<>>, !.inflight = @ - 1,
                                   !.escaped = @ \cup {call.idx},
                                   !.lk = [seen EXCEPT !.warned = @ \cup {s}]]]
                /\ UNCHANGED <<cache, stored>>
           ELSE IF r.next # "return"
           THEN /\ calls' = [calls EXCEPT ![c] =
                      [call EXCEPT !.step = r.next, !.threw = thr,
                                   !.lk = [call.lk EXCEPT !.requests = @ + 1,
                                                          !.urls = Append(@, r.next)]]]
                /\ UNCHANGED <<cache, stored>>
           ELSE /\ cache' = Store(cache, s, r.queries, now, config)
                /\ stored' = StoredAt(stored, s, r.queries, now)
                /\ calls' = [calls EXCEPT ![c] =
                      [call EXCEPT !.pc = "resume", !.step = "none", !.threw = thr,
                                   !.pending = r.queries, !.inflight = @ - 1,
                                   !.raced = IF call.lk.cleared /\ Len(r.queries) > 0
                                             THEN @ \cup {call.idx} ELSE @,
                                   !.lk = [seen EXCEPT !.warned =
                                             @ \cup NoQueriesWarning(s, r.queries)]]]
        /\ UNCHANGED <<config, newsApiKey, now>>
        /\ UNCHANGED others

\* Faulty variant: the loop goes on while the lookup's request is in flight.
AwaitedOrPending(call) == call.pc \in {"resume", "http"}

\* Line 426: the loop body continues when getFromSource has settled.
Awaited(call) == call.pc = "resume"

\* fetchQueries resumes with the list of the current source: line 427, then
\* the next source's lookup, or lines 434-447 after the last one.
Resume(c) ==
    LET call   == calls[c]
        part   == Capped(call.pending, config)
        pushed == [call EXCEPT !.allQueries = @ \o part, !.parts = Append(@, part),
                               !.pending = <<>>, !.idx = @ + 1]
    IN  /\ Quiet
        /\ Awaited(call)
        /\ IF pushed.idx <= Len(config.sources)
           THEN GetFromSource(c, pushed)
           ELSE Finish(c, pushed)
        /\ UNCHANGED <<config, newsApiKey>>
        /\ UNCHANGED others

\* Faulty variant: only the expired entries are dropped.
clearCacheExpired(c) == cleanExpiredCache(c, now)

\* Line 808: this.cache.clear().
clearCache(c) == EmptyCache

\* clearCache().
ClearCache ==
    /\ Quiet
    /\ cache' = clearCache(cache)
    /\ stored' = [s \in SourceNames |-> -1]
    /\ UNCHANGED <<config, newsApiKey, now, calls>>
    /\ UNCHANGED others

\* A minute passes.
Tick ==
    /\ Quiet
    /\ now < MaxTicks * MsPerMinute
    /\ now' = now + MsPerMinute
    /\ stored' = Forget(stored, now')
    /\ UNCHANGED <<config, newsApiKey, cache, calls>>
    /\ UNCHANGED others

\* The caller takes the resolved value.
Deliver(c) ==
    /\ calls[c].pc = "done"
    /\ calls' = [calls EXCEPT ![c] = IdleCall]
    /\ UNCHANGED <<config, newsApiKey, cache, now, stored>>
    /\ UNCHANGED others

Next ==
    \/ \E c \in DOMAIN calls : StartFetch(c)
    \/ \E c \in DOMAIN calls : Deliver(c)
    \/ \E c \in DOMAIN calls, resp \in Responses : HttpResolve(c, resp)
    \/ \E c \in DOMAIN calls : Resume(c)
    \/ ClearCache
    \/ Tick

Spec == Init /\ [][Next]_vars

\* clearCache(), noted in the history of every lookup whose adapter is being
\* awaited.
ClearCacheNoted ==
    /\ Quiet
    /\ cache' = clearCache(cache)
    /\ stored' = [s \in SourceNames |-> -1]
    /\ calls' = [c \in DOMAIN calls |->
                    IF calls[c].pc = "http"
                    THEN [calls[c] EXCEPT !.lk.cleared = TRUE] ELSE calls[c]]
    /\ UNCHANGED <<config, newsApiKey, now>>
    /\ UNCHANGED others

\* The engine with that history kept, for source lists that name a source twice.
NextRace ==
    \/ \E c \in DOMAIN calls : StartFetch(c)
    \/ \E c \in DOMAIN calls : Deliver(c)
    \/ \E c \in DOMAIN calls, resp \in Responses : HttpResolve(c, resp)
    \/ \E c \in DOMAIN calls : Resume(c)
    \/ ClearCacheNoted
    \/ Tick

InitRace == InitWith(Configs(RaceLists), {"c1"})
SpecRace == InitRace /\ [][NextRace]_vars
SpecCascade == InitCascade /\ [][Next]_vars

\* WF_vars(Resume(c)) with the enabling condition of Resume(c) written out:
\* its lookup, or lines 434-447, can always be taken.
ResumesFairly(c) ==
    \/ []<>~(Quiet /\ Awaited(calls[c]))
    \/ []<><<Resume(c)>>_vars

\* Every transport request settles (the client's timeout sees to that), and
\* the event loop runs the continuation of a settled await.
Fairness ==
    \A c \in LiveCallers :
        /\ WF_vars(\E resp \in Responses : HttpResolve(c, resp))
        /\ ResumesFairly(c)
SpecLive == InitLive /\ [][Next]_vars /\ Fairness
SpecOverlap == InitOverlap /\ [][Next]_vars

----------------------------------------------------------------------------
(* The constructor applied to caller-supplied arguments *)

InitConstruct ==
    /\ construction = NoArguments
    /\ config = Constructor(<<>>, TRUE, TRUE, 0, 0)
    /\ newsApiKey = FALSE
    /\ cache = EmptyCache
    /\ now = 0
    /\ calls = [c \in {} |-> IdleCall]
    /\ stored = [s \in SourceNames |-> -1]
    /\ extraction = NoExtraction
    /\ report = NoReport
    /\ transport = NoTransport
    /\ interleaving = NoInterleaving
    /\ socket = NoSocket
    /\ logView = NoLogView
    /\ arrays = NoArrays

\* new QueryDiversityEngine(args): lines 369-384; the new engine's cache is empty.
Construct(args) ==
    /\ construction' = args
    /\ config' = Constructor(args.sources, args.deduplicate, TRUE,
                             Raw(args.maxQueriesPerSource), Raw(args.cacheMinutes))
    /\ cache' = EmptyCache
    /\ stored' = [s \in SourceNames |-> -1]
    /\ UNCHANGED <<newsApiKey, now, calls, extraction, report, transport, interleaving, socket, logView, arrays>>

NextConstruct == \E args \in ArgumentChoices : Construct(args)

SpecConstruct == InitConstruct /\ [][NextConstruct]_vars

----------------------------------------------------------------------------
(* interleaveQueries, and the steps of fetchQueries after its loop, applied  *)
(* to lists of queries                                                      *)

InterleaveLists == { <<"reddit">>, <<"google-trends", "reddit">> }
InterleaveConfigs ==
    { Constructor(s, d, mx, p, 1) :
        s \in InterleaveLists, d \in BOOLEAN, mx \in BOOLEAN, p \in {1, 2} }
\* The elements of the lists: two queries and the empty string.
QueryChoices == {"", "q1", "q2"}
TargetCountChoices == {1, 2, 3, 200}

InitInterleave ==
    /\ config \in InterleaveConfigs
    /\ newsApiKey = FALSE
    /\ cache = EmptyCache
    /\ now = 0
    /\ calls = [c \in {} |-> IdleCall]
    /\ stored = [s \in SourceNames |-> -1]
    /\ construction = NoArguments
    /\ extraction = NoExtraction
    /\ report = NoReport
    /\ transport = NoTransport
    /\ interleaving \in
          {[NoInterleaving EXCEPT !.pc = "ready", !.queries = q] :
              q \in SeqsUpTo(QueryChoices, MaxQueries)}
    /\ socket = NoSocket
    /\ logView = NoLogView
    /\ arrays = NoArrays

\* this.interleaveQueries(queries, targetCount).
InterleaveQueries(targetCount) ==
    /\ interleaving.pc = "ready"
    /\ interleaving' =
          [interleaving EXCEPT !.pc = "interleaved", !.targetCount = targetCount,
              !.out = interleaveQueries(interleaving.queries, targetCount, config)]
    /\ UNCHANGED <<engine, construction, extraction, report, transport, socket, logView, arrays>>

\* Lines 421 and 434-447 of fetchQueries(count) with the list as allQueries.
FetchQueriesTail(count) ==
    LET validCount == ValidCount(count)
        deduped    == Deduplicated(config, interleaving.queries)
        selected   == Mixed(config, deduped, validCount)
    IN  /\ interleaving.pc = "interleaved"
        /\ \E final \in ShuffledAndCut(selected, validCount) :
           \E local \in (IF Len(final) = 0 THEN getLocalFallback(validCount) ELSE {<<>>}) :
               interleaving' =
                   [interleaving EXCEPT !.pc = "fetched", !.count = count,
                       !.deduped = deduped, !.result = Resolved(final, local)]
        /\ UNCHANGED <<engine, construction, extraction, report, transport, socket, logView, arrays>>

NextInterleave ==
    \/ \E targetCount \in TargetCountChoices : InterleaveQueries(targetCount)
    \/ \E count \in CountChoices : FetchQueriesTail(count)

SpecInterleave == InitInterleave /\ [][NextInterleave]_vars

----------------------------------------------------------------------------
(* fetchQueries served from the cache, with its arrays as objects: the list  *)
(* of a cache entry is the object that getFromSource returns at line 458,    *)
(* allQueries is the object made at line 422.                               *)

AliasLists == { <<"reddit">>, <<"reddit", "reddit">>, <<"reddit", "news">> }
AliasConfigs ==
    { Constructor(s, d, mx, p, 1) :
        s \in AliasLists, d \in BOOLEAN, mx \in BOOLEAN, p \in {1, 2} }
CachedLists == SeqsUpTo({"q1", "q2"}, 3) \ {<<>>}

\* Faulty variant: the capped items are pushed onto the source's own list.
PushedOntoQueries(allQueries, queries, cfg) ==
    [allQueries |-> allQueries, queries |-> queries \o Capped(queries, cfg)]

\* Line 427: allQueries.push(...queries.slice(0, maxQueriesPerSource)); the
\* two arrays after the statement.
Pushed(allQueries, queries, cfg) ==
    [allQueries |-> allQueries \o Capped(queries, cfg), queries |-> queries]

\* The loop of lines 424-432 from position idx on, every lookup a cache hit:
\* the cached lists and allQueries after it.
RECURSIVE HitLoop(_, _, _)
HitLoop(idx, lists, allQueries) ==
    IF idx > Len(config.sources) THEN [lists |-> lists, allQueries |-> allQueries]
    ELSE LET s     == config.sources[idx]
             after == Pushed(allQueries, lists[s], config)
         IN  HitLoop(idx + 1, [lists EXCEPT ![s] = after.queries], after.allQueries)

\* The object that final names at line 440: Array.from (line 434) and
\* interleaveQueries (line 437) return new arrays, otherwise it is allQueries.
FinalObject(cfg) ==
    IF cfg.deduplicate \/ (cfg.mixStrategies /\ Len(cfg.sources) > 1)
    THEN "new" ELSE "allQueries"

InitAlias ==
    /\ config \in AliasConfigs
    /\ newsApiKey = FALSE
    /\ cache \in [Elems(config.sources) ->
                     {[queries |-> q, expires |-> config.cacheMinutes * MsPerMinute] :
                         q \in CachedLists}]
    /\ now = 0
    /\ calls = [c \in {} |-> IdleCall]
    /\ stored = [s \in SourceNames |-> IF s \in Elems(config.sources) THEN 0 ELSE -1]
    /\ construction = NoArguments
    /\ extraction = NoExtraction
    /\ report = NoReport
    /\ transport = NoTransport
    /\ interleaving = NoInterleaving
    /\ socket = NoSocket
    /\ logView = NoLogView
    /\ arrays = [NoArrays EXCEPT !.pc = "ready"]

\* fetchQueries(count) when every configured source has an unexpired entry:
\* lines 420-447 with no adapter call.  Util.shuffleArray may permute the
\* array it is given or a copy of it.
FetchQueriesFromCache(count, inPlace) ==
    LET lists0     == [s \in DOMAIN cache |-> cache[s].queries]
        loop       == HitLoop(1, lists0, <<>>)
        validCount == ValidCount(count)
        deduped    == Deduplicated(config, loop.allQueries)
        selected   == Mixed(config, deduped, validCount)
        object     == FinalObject(config)
    IN  /\ arrays.pc = "ready"
        /\ \A s \in Elems(config.sources) :
               s \in DOMAIN cache /\ CacheFresh(now, cache[s])
        /\ cleanExpiredCache(cache, now) = cache
        /\ \E p \in shuffleArray(selected) :
           \E local \in (IF Len(p) = 0 THEN getLocalFallback(validCount) ELSE {<<>>}) :
              LET lists == IF inPlace /\ object \in DOMAIN loop.lists
                           THEN [loop.lists EXCEPT ![object] = p] ELSE loop.lists
              IN  /\ cache' = [s \in DOMAIN cache |->
                                  [cache[s] EXCEPT !.queries = lists[s]]]
                  /\ arrays' =
                        [ pc         |-> "done",
                          before     |-> lists0,
                          allQueries |-> IF inPlace /\ object = "allQueries"
                                         THEN p ELSE loop.allQueries,
                          result     |-> Resolved(Slice(p, validCount), local),
                          count      |-> count,
                          inPlace    |-> inPlace ]
        /\ UNCHANGED <<config, newsApiKey, now, calls, stored>>
        /\ UNCHANGED <<construction, extraction, report, transport, interleaving,
                       socket, logView>>

\* The caller takes the returned list.
TakeResult ==
    /\ arrays.pc = "done"
    /\ arrays' = [NoArrays EXCEPT !.pc = "ready"]
    /\ UNCHANGED engine
    /\ UNCHANGED <<construction, extraction, report, transport, interleaving,
                   socket, logView>>

NextAlias ==
    \/ \E count \in CountChoices, inPlace \in BOOLEAN : FetchQueriesFromCache(count, inPlace)
    \/ TakeResult
    \/ ClearCache

SpecAlias == InitAlias /\ [][NextAlias]_vars

----------------------------------------------------------------------------
(* The adapters' extraction functions applied to response bodies *)

ExtractionInputs ==
    ({"reddit"} \X RedditBodies) \cup ({"cn-json"} \X CnJsonBodies)
        \cup ({"trends"} \X TrendsBodies) \cup ({"news-api"} \X NewsApiBodies)
        \cup ({"wikipedia"} \X WikipediaBodies)
        \cup ({"news-scrape", "cn-html"} \X HtmlBodies)

InitExtract ==
    /\ extraction \in
          {[NoExtraction EXCEPT !.adapter = in[1], !.body = in[2]] : in \in ExtractionInputs}
    /\ config = Constructor(<<>>, TRUE, TRUE, 0, 0)
    /\ newsApiKey = FALSE
    /\ cache = EmptyCache
    /\ now = 0
    /\ calls = [c \in {} |-> IdleCall]
    /\ stored = [s \in SourceNames |-> -1]
    /\ construction = NoArguments
    /\ report = NoReport
    /\ transport = NoTransport
    /\ interleaving = NoInterleaving
    /\ socket = NoSocket
    /\ logView = NoLogView
    /\ arrays = NoArrays

\* The adapter parses the body it received; what the extraction throws is
\* caught by the adapter (by extractCnNewsFromJson itself for the regional one).
Extract(adapter, r) ==
    /\ extraction.adapter = adapter
    /\ ~extraction.done
    /\ extraction' = [extraction EXCEPT !.done = TRUE, !.threw = r.threw,
                                        !.out = Caught(r)]
    /\ UNCHANGED <<engine, construction, report, transport, interleaving, socket, logView, arrays>>

ExtractTrends == Extract("trends", extractTrends(extraction.body))
ExtractReddit == Extract("reddit", extractReddit(extraction.body))
ExtractNewsApi == Extract("news-api", extractNewsApi(extraction.body))
ExtractNewsFallback == Extract("news-scrape", extractNewsFallback(extraction.body))
ExtractCnNewsFromJson == Extract("cn-json", extractCnNewsFromJson(extraction.body))
ExtractCnNewsFromHtml == Extract("cn-html", extractCnNewsFromHtml(extraction.body))
ExtractWikipedia == Extract("wikipedia", extractWikipedia(extraction.body))

NextExtract ==
    \/ ExtractTrends
    \/ ExtractReddit
    \/ ExtractNewsApi
    \/ ExtractNewsFallback
    \/ ExtractCnNewsFromJson
    \/ ExtractCnNewsFromHtml
    \/ ExtractWikipedia

SpecExtract == InitExtract /\ [][NextExtract]_vars

----------------------------------------------------------------------------
(* fetchHttp applied to locators, options and outcomes of the request *)

InitTransport ==
    /\ transport \in
          { [NoTransport EXCEPT !.pc = "called", !.url = url, !.options = options] :
              url \in Urls, options \in OptionChoices }
    /\ config = Constructor(<<>>, TRUE, TRUE, 0, 0)
    /\ newsApiKey = FALSE
    /\ cache = EmptyCache
    /\ now = 0
    /\ calls = [c \in {} |-> IdleCall]
    /\ stored = [s \in SourceNames |-> -1]
    /\ construction = NoArguments
    /\ extraction = NoExtraction
    /\ report = NoReport
    /\ interleaving = NoInterleaving
    /\ socket = NoSocket
    /\ logView = NoLogView
    /\ arrays = NoArrays

\* fetchHttp up to its await, lines 401-408.
FetchHttp ==
    /\ transport.pc = "called"
    /\ transport' =
          [transport EXCEPT !.pc = "requesting",
                            !.requests = Append(@, RequestOf(transport.url,
                                                             transport.options))]
    /\ UNCHANGED <<engine, construction, extraction, report, interleaving, socket, logView, arrays>>

\* Line 409: the client resolves.
RequestResolves(data) ==
    /\ transport.pc = "requesting"
    /\ transport' = [transport EXCEPT !.pc = "returned", !.data = data,
                                      !.returned = ResponseText(data)]
    /\ UNCHANGED <<engine, construction, extraction, report, interleaving, socket, logView, arrays>>

\* Lines 410-414: the client rejects, on a network error, a timeout or a
\* status outside 2xx.
RequestRejects(error) ==
    /\ transport.pc = "requesting"
    /\ transport' = [transport EXCEPT !.pc = "failed", !.cause = error,
                                      !.log = Append(@, FailureEntry(transport.url, error)),
                                      !.raised = Rethrown(error)]
    /\ UNCHANGED <<engine, construction, extraction, report, interleaving, socket, logView, arrays>>

NextTransport ==
    \/ FetchHttp
    \/ \E data \in ResponseData : RequestResolves(data)
    \/ \E error \in Rejections : RequestRejects(error)

SpecTransport == InitTransport /\ [][NextTransport]_vars

----------------------------------------------------------------------------
(* The dashboard page's WebSocket (src/unnamed/part_000, lines 68-110)     *)

MaxReconnects == 10
BaseDelay == 1000
MaxDelay == 30000

RECURSIVE Power(_, _)
Power(b, n) == IF n = 0 THEN 1 ELSE b * Power(b, n - 1)

\* Line 109: Math.min(1000 * Math.pow(1.5, attempts), 30000), in whole ms.
ReconnectDelay(attempts) ==
    Min((BaseDelay * Power(3, attempts)) \div Power(2, attempts), MaxDelay)

\* Faulty variant: one more attempt is allowed.
GivesUpLate(attempts) == attempts > MaxReconnects

\* Line 104.
GivesUp(attempts) == attempts >= MaxReconnects

\* attemptReconnect(), called for socket by (0: from the catch of
\* initWebSocket, where no socket was made).
AttemptReconnect(s, by) ==
    IF GivesUp(s.reconnectAttempts) THEN [s EXCEPT !.toast = TRUE]
    ELSE LET set == [s EXCEPT !.reconnectAttempts = @ + 1,
                              !.timers = Append(@, ReconnectDelay(s.reconnectAttempts + 1))]
         IN  IF by = 0 THEN [set EXCEPT !.unsocketed = @ + 1]
             ELSE [set EXCEPT !.sockets[by].scheduled = @ + 1]

\* initWebSocket(): new WebSocket(wsUrl) returns a socket, or throws.
InitWebSocket(s, throws) ==
    IF throws THEN AttemptReconnect(s, 0)
    ELSE [s EXCEPT !.sockets = Append(@, [status |-> "connecting", scheduled |-> 0]),
                   !.ws = Len(s.sockets) + 1]

Live(sock) == sock.status \in {"connecting", "open"}

SocketFrame ==
    /\ UNCHANGED engine
    /\ UNCHANGED <<construction, extraction, report, transport, interleaving,
                   logView, arrays>>

InitSocket ==
    /\ config = Constructor(<<>>, TRUE, TRUE, 0, 0)
    /\ newsApiKey = FALSE
    /\ cache = EmptyCache
    /\ now = 0
    /\ calls = [c \in {} |-> IdleCall]
    /\ stored = [s \in SourceNames |-> -1]
    /\ construction = NoArguments
    /\ extraction = NoExtraction
    /\ report = NoReport
    /\ transport = NoTransport
    /\ interleaving = NoInterleaving
    /\ socket = [NoSocket EXCEPT !.pc = "loading"]
    /\ logView = NoLogView
    /\ arrays = NoArrays

\* DOMContentLoaded: line 60.
DomContentLoaded(throws) ==
    /\ socket.pc = "loading"
    /\ socket' = [InitWebSocket(socket, throws) EXCEPT !.pc = "ready"]
    /\ SocketFrame

\* A reconnect timer fires: initWebSocket runs again.
TimerFires(i, throws) ==
    /\ socket.pc = "ready"
    /\ i \in 1..Len(socket.timers)
    /\ Len(socket.sockets) < MaxSockets
    /\ LET fired == [socket EXCEPT
                        !.timers = SubSeq(@, 1, i - 1) \o SubSeq(@, i + 1, Len(@)),
                        !.tried = @ + 1]
       IN  socket' = InitWebSocket(fired, throws)
    /\ SocketFrame

\* onopen of socket i, lines 75-79.
OnOpen(i) ==
    /\ i \in 1..Len(socket.sockets)
    /\ socket.sockets[i].status = "connecting"
    /\ socket' = [socket EXCEPT !.sockets[i].status = "open", !.connected = TRUE,
                                !.reconnectAttempts = 0, !.tried = 0]
    /\ SocketFrame

\* onclose of socket i, lines 89-92.
OnClose(i) ==
    /\ i \in 1..Len(socket.sockets)
    /\ Live(socket.sockets[i])
    /\ socket' = AttemptReconnect(
                     [socket EXCEPT !.sockets[i].status = "closed", !.connected = FALSE], i)
    /\ SocketFrame

\* onerror of socket i, lines 94-96: the error is written to the console.
OnError(i) ==
    /\ i \in 1..Len(socket.sockets)
    /\ Live(socket.sockets[i])
    /\ socket.errors = 0
    /\ socket' = [socket EXCEPT !.errors = 1]
    /\ SocketFrame

NextSocket ==
    \/ \E throws \in BOOLEAN : DomContentLoaded(throws)
    \/ \E i \in 1..MaxReconnects, throws \in BOOLEAN : TimerFires(i, throws)
    \/ \E i \in 1..MaxSockets : OnOpen(i)
    \/ \E i \in 1..MaxSockets : OnClose(i)
    \/ \E i \in 1..MaxSockets : OnError(i)

SpecSocket == InitSocket /\ [][NextSocket]_vars

----------------------------------------------------------------------------
(* The dashboard page's log view (src/unnamed/part_000, lines 598-674)     *)

RenderCap == 500

\* The level field of an incoming log record ("" when it has none) and the
\* values of the filter select.
LevelChoices == {"", "error"}
FilterChoices == {"all", "error", "log"}

\* Line 608: log.level || 'log'.
NormalLevel(level) == IF level = "" THEN "log" ELSE level

\* Lines 614 and 647-649.
Shown(filter, level) == filter = "all" \/ level = filter

\* Lines 630-632: the oldest entries are removed while there are more than 500.
Trimmed(children) ==
    IF Len(children) > RenderCap
    THEN SubSeq(children, Len(children) - RenderCap + 1, Len(children))
    ELSE children

\* addLogEntry(log), lines 598-634.
addLogEntry(v, level) ==
    IF ~v.hasContainer THEN v
    ELSE LET pushed == [v EXCEPT !.placeholder = FALSE,
                                 !.logs = Append(@, NormalLevel(level))]
         IN  IF ~Shown(v.currentLogFilter, NormalLevel(level)) THEN pushed
             ELSE [pushed EXCEPT !.children = Trimmed(Append(@, NormalLevel(level)))]

\* logs.forEach(addLogEntry), line 114: addLogEntry applied to each record in
\* turn, written as the loop's net effect. Every record is pushed onto
\* state.logs, the records that pass the filter are appended in order, and
\* removing the oldest entry after each append leaves the newest 500.
addLogEntries(v, levels) ==
    IF ~v.hasContainer \/ levels = <<>> THEN v
    ELSE LET normal == [i \in 1..Len(levels) |-> NormalLevel(levels[i])]
             shown  == SelectSeq(normal, LAMBDA l : Shown(v.currentLogFilter, l))
         IN  [v EXCEPT !.placeholder = FALSE,
                       !.logs = @ \o normal,
                       !.children = Trimmed(@ \o shown)]

\* filterLogs() with the select at value, lines 636-665.
filterLogs(v, value) ==
    IF ~v.hasFilter THEN v
    ELSE LET set      == [v EXCEPT !.currentLogFilter = value]
             filtered == SelectSeq(v.logs, LAMBDA l : Shown(value, l))
         IN  IF ~v.hasContainer THEN set
             ELSE IF filtered = <<>>
                  THEN [set EXCEPT !.children = <<>>, !.placeholder = TRUE]
             ELSE [set EXCEPT !.children = filtered, !.placeholder = FALSE]

\* clearLogs(), lines 667-674.
clearLogs(v) ==
    IF v.hasContainer
    THEN [v EXCEPT !.logs = <<>>, !.children = <<>>, !.placeholder = TRUE]
    ELSE [v EXCEPT !.logs = <<>>]

LogFrame ==
    /\ UNCHANGED engine
    /\ UNCHANGED <<construction, extraction, report, transport, interleaving,
                   socket, arrays>>

InitLogView ==
    /\ config = Constructor(<<>>, TRUE, TRUE, 0, 0)
    /\ newsApiKey = FALSE
    /\ cache = EmptyCache
    /\ now = 0
    /\ calls = [c \in {} |-> IdleCall]
    /\ stored = [s \in SourceNames |-> -1]
    /\ construction = NoArguments
    /\ extraction = NoExtraction
    /\ report = NoReport
    /\ transport = NoTransport
    /\ interleaving = NoInterleaving
    /\ socket = NoSocket
    /\ \E c \in BOOLEAN, f \in BOOLEAN :
          logView = [NoLogView EXCEPT !.pc = "ready", !.hasContainer = c,
                                      !.hasFilter = f, !.placeholder = c]
    /\ arrays = NoArrays

Operation(after) ==
    /\ logView.pc = "ready"
    /\ logView.ops < MaxOps
    /\ logView' = [after EXCEPT !.ops = logView.ops + 1]
    /\ LogFrame

\* A 'log' message arrives: line 124.
AddLogEntry(level) == Operation(addLogEntry(logView, level))

\* An 'init' message arrives with Burst log records of one level: line 114.
AddLogEntries(level) ==
    Operation(addLogEntries(logView, [i \in 1..Burst |-> level]))

\* The user picks a value in the filter select.
FilterLogs(value) == Operation(filterLogs(logView, value))

\* The user clears the log.
ClearLogs == Operation(clearLogs(logView))

NextLogView ==
    \/ \E level \in LevelChoices : AddLogEntry(level)
    \/ \E level \in LevelChoices : AddLogEntries(level)
    \/ \E value \in FilterChoices : FilterLogs(value)
    \/ ClearLogs

SpecLogView == InitLogView /\ [][NextLogView]_vars

----------------------------------------------------------------------------
(* sendErrorReport applied to errors and additional contexts *)

Messages == SeqsUpTo(Fragments, MaxFragments)

\* error.stack: none for a string, else the lines of the trace.
Stacks ==
    { <<>>,
      << <<"at", OtherPath>> >>,
      << <<"at", HomePath>>, <<"at", WindowsPath>> >> }

\* additionalContext: none, or one string entry.
Contexts ==
    {<<>>} \cup { <<[key |-> k, value |-> <<f>>]>> :
                      k \in {"platform", "account"}, f \in {"desktop", Email} }

InitReport ==
    /\ report \in
          { [NoReport EXCEPT !.pc = "called", !.enabled = e, !.message = msg,
                             !.stack = st, !.context = ctx] :
              e \in {"true", "false", "undefined"}, msg \in Messages,
              st \in Stacks, ctx \in Contexts }
    /\ config = Constructor(<<>>, TRUE, TRUE, 0, 0)
    /\ newsApiKey = FALSE
    /\ cache = EmptyCache
    /\ now = 0
    /\ calls = [c \in {} |-> IdleCall]
    /\ stored = [s \in SourceNames |-> -1]
    /\ construction = NoArguments
    /\ extraction = NoExtraction
    /\ transport = NoTransport
    /\ interleaving = NoInterleaving
    /\ socket = NoSocket
    /\ logView = NoLogView
    /\ arrays = NoArrays

\* sendErrorReport up to its await, lines 126-297.  The hard-coded webhook
\* URL decodes to a Discord webhook URL, so line 141 never returns.
SendErrorReport ==
    /\ report.pc = "called"
    /\ report' =
          IF Disabled(report.enabled)
          THEN [report EXCEPT !.pc = "returned"]
          ELSE IF ~shouldReportError(Join(report.message))
          THEN [report EXCEPT !.pc = "returned", !.filtered = TRUE]
          ELSE [report EXCEPT !.pc = "posting", !.posts = @ + 1,
                              !.posted = discordPayload(report.message, report.stack,
                                                        report.context)]
    /\ UNCHANGED <<engine, construction, extraction, transport, interleaving, socket, logView, arrays>>

\* Faulty variant: a rejected request rejects sendErrorReport's promise.
SettledUncaught(outcome) == IF outcome = "ok" THEN "returned" ELSE "rejected"

\* Lines 302-308: the catch logs to stderr, and the function returns either way.
Settled(outcome) == "returned"

\* Lines 297-308: the request settles, with a response, an HTTP error or a
\* timeout.
WebhookSettles(outcome) ==
    /\ report.pc = "posting"
    /\ report' = [report EXCEPT !.pc = Settled(outcome), !.outcome = outcome]
    /\ UNCHANGED <<engine, construction, extraction, transport, interleaving, socket, logView, arrays>>

NextReport ==
    \/ SendErrorReport
    \/ \E outcome \in {"ok", "http error", "timeout"} : WebhookSettles(outcome)

SpecReport == InitReport /\ [][NextReport]_vars

----------------------------------------------------------------------------
(* Properties *)

HasResolved(c) == calls[c].pc = "done"
InLookup(c) == calls[c].pc \in {"http", "resume"}
FallbackSet == Elems(fallback)
NoDuplicates(seq) == \A i, j \in 1..Len(seq) : seq[i] = seq[j] => i = j
FirstIndex(seq, x) == CHOOSE i \in 1..Len(seq) : seq[i] = x /\ \A j \in 1..(i - 1) : seq[j] # x
ClampedCount(count) == IF count < 1 THEN 1 ELSE IF count > 200 THEN 200 ELSE count
CacheMs == config.cacheMinutes * MsPerMinute
\* The queries contributed by the sources at the positions in idxs.
Contributed(call, idxs) == UNION {Elems(call.parts[i]) : i \in idxs}
Positions(call) == 1..Len(call.parts)
AllEmpty(call) == \A i \in Positions(call) : call.parts[i] = <<>>

\* C1: whatever count is (also count <= 0 and count > 200) and whatever each
\* source did (list, empty list, transport failure, parse failure, cache hit),
\* a resolved fetchQueries call returns at least one query.
C1_NonEmptyResult ==
    \A c \in DOMAIN calls :
        HasResolved(c) =>
            /\ Len(calls[c].result) >= 1
            /\ \A i \in 1..Len(calls[c].result) : calls[c].result[i] # ""

\* A call with count <= 0 in which a transport request threw and no source
\* contributed has resolved.
C1_Witness ==
    \E c \in DOMAIN calls :
        /\ HasResolved(c) /\ calls[c].count <= 0
        /\ calls[c].threw # {} /\ AllEmpty(calls[c]) /\ calls[c].fellBack

\* C2: the returned list is never longer than count clamped to [1,200], on
\* the normal path and on the local-fallback path.
C2_LengthAtMostClampedCount ==
    \A c \in DOMAIN calls :
        HasResolved(c) => Len(calls[c].result) <= ClampedCount(calls[c].count)

\* A call whose sources contributed more than the clamped count has resolved
\* on the normal path with exactly the clamped count.
C2_Witness ==
    \E c \in DOMAIN calls :
        /\ HasResolved(c) /\ ~calls[c].fellBack
        /\ Len(calls[c].selected) > ClampedCount(calls[c].count)
        /\ Len(calls[c].result) = ClampedCount(calls[c].count)

\* C3 as stated: when a transport call of one configured source throws and
\* another configured source yields a non-empty list, the local fallback list is
\* not substituted and every returned query comes from the other sources.
C3_OnlyFromRemainingSources ==
    \A c \in DOMAIN calls :
        HasResolved(c) =>
            \A i \in calls[c].threw :
                (\E j \in Positions(calls[c]) \ {i} : calls[c].parts[j] # <<>>) =>
                    /\ ~calls[c].fellBack
                    /\ Elems(calls[c].result) \subseteq
                           Contributed(calls[c], Positions(calls[c]) \ {i})

\* C3 amended: the same, except that the news source, whose API request threw,
\* may still contribute what its scraping fallback returned.
C3_FailedSourceContributesNothingButNews ==
    \A c \in DOMAIN calls :
        HasResolved(c) =>
            \A i \in calls[c].threw :
                (\E j \in Positions(calls[c]) \ {i} : calls[c].parts[j] # <<>>) =>
                    /\ ~calls[c].fellBack
                    /\ Len(calls[c].result) >= 1
                    /\ Elems(calls[c].result) \subseteq
                           Contributed(calls[c],
                               IF config.sources[i] = "news" THEN Positions(calls[c])
                               ELSE Positions(calls[c]) \ {i})

\* A transport request of one source threw, another source contributed, and
\* the call resolved with queries of that other source.
C3_Witness ==
    \E c \in DOMAIN calls :
        /\ HasResolved(c) /\ ~calls[c].fellBack
        /\ \E i \in calls[c].threw :
              /\ calls[c].parts[i] = <<>>
              /\ \E j \in Positions(calls[c]) \ {i} : calls[c].parts[j] # <<>>

\* C4 as stated: two lookups of one source made within cacheMinutes of each
\* other, overlapping calls included, issue at most one transport call in total.
C4_AtMostOneTransportCall ==
    \A c, d \in DOMAIN calls :
        ( /\ c # d /\ InLookup(c) /\ InLookup(d)
          /\ config.sources[calls[c].idx] = config.sources[calls[d].idx]
          /\ calls[c].lk.at - calls[d].lk.at < CacheMs
          /\ calls[d].lk.at - calls[c].lk.at < CacheMs )
        => calls[c].lk.requests + calls[d].lk.requests <= 1

\* C4 amended: once a lookup has stored a non-empty list for a source, every
\* lookup of that source made less than cacheMinutes later, with no clearCache()
\* in between, is served from the cache and issues no transport call.
C4_StoredListServesLaterLookups ==
    \A c \in DOMAIN calls :
        (InLookup(c) /\ calls[c].lk.fresh) =>
            calls[c].lk.hit /\ calls[c].lk.requests = 0

\* A lookup is served from a list stored earlier while the other caller holds
\* a lookup of the same source that issued a request.
C4_Witness ==
    \E c, d \in DOMAIN calls :
        /\ c # d /\ InLookup(c) /\ InLookup(d)
        /\ config.sources[calls[c].idx] = config.sources[calls[d].idx]
        /\ calls[c].lk.fresh /\ calls[c].lk.hit /\ calls[c].lk.at > 0
        /\ calls[d].lk.requests >= 1

\* C5: a lookup made when now >= expiresAt of the source's entry never returns
\* the cached list; it invokes the adapter again (a transport request for a
\* remote source), also when calls overlap.
C5_NeverReadStale ==
    \A c \in DOMAIN calls :
        (InLookup(c) /\ calls[c].lk.stale) =>
            /\ ~calls[c].lk.hit
            /\ config.sources[calls[c].idx] \in RemoteSources => calls[c].lk.requests >= 1

\* A lookup found an expired entry and issued a request while the other caller
\* was in a lookup too.
C5_Witness ==
    \E c, d \in DOMAIN calls :
        /\ c # d /\ InLookup(c) /\ InLookup(d)
        /\ calls[c].lk.stale /\ calls[c].lk.requests >= 1

\* C6: with deduplicate = true the list taken from the concatenation has no two
\* equal elements, has exactly the values of the concatenation, and keeps them
\* in the order of their first occurrence.
C6_DeduplicationKeepsFirstOccurrences ==
    \A c \in DOMAIN calls :
        (HasResolved(c) /\ config.deduplicate) =>
            LET all == calls[c].allQueries
                ded == calls[c].deduped
            IN  /\ NoDuplicates(ded)
                /\ Elems(ded) = Elems(all)
                /\ \A i, j \in 1..Len(ded) :
                       i < j => FirstIndex(all, ded[i]) < FirstIndex(all, ded[j])

\* A concatenation with repeated values was deduplicated to several values.
C6_Witness ==
    \E c \in DOMAIN calls :
        /\ HasResolved(c) /\ config.deduplicate
        /\ Len(calls[c].deduped) < Len(calls[c].allQueries)
        /\ Len(calls[c].deduped) >= 3

C8_LocalOnlyReturnsExactlyCount ==
    \A c \in DOMAIN calls :
        ( /\ HasResolved(c)
          /\ config.sources = <<"local-fallback">> /\ config.deduplicate
          /\ 1 <= calls[c].count
          /\ calls[c].count <= config.maxQueriesPerSource /\ calls[c].count <= 20 )
        => /\ Len(calls[c].result) = calls[c].count
           /\ NoDuplicates(calls[c].result)
           /\ Elems(calls[c].result) \subseteq FallbackSet

\* fetchQueries(5) has resolved with the default maxQueriesPerSource.
C8_Witness ==
    \E c \in DOMAIN calls :
        /\ HasResolved(c)
        /\ config.sources = <<"local-fallback">> /\ config.deduplicate
        /\ config.maxQueriesPerSource = 10 /\ calls[c].count = 5

\* C9 as stated: when no configured source contributes a query, the result is
\* the local fallback list with exactly min(max(count,1),200) queries, for every
\* count in [1,200].
C9_FallbackSizedToCount ==
    \A c \in DOMAIN calls :
        ( /\ HasResolved(c) /\ AllEmpty(calls[c])
          /\ 1 <= calls[c].count /\ calls[c].count <= 200 )
        => /\ Len(calls[c].result) = ClampedCount(calls[c].count)
           /\ Elems(calls[c].result) \subseteq FallbackSet

\* C9 amended: the result then has exactly min(min(max(count,1),200), 30)
\* queries, 30 being the length of the curated list, all from that list.
C9_FallbackSizedToCountUpToListLength ==
    \A c \in DOMAIN calls :
        (HasResolved(c) /\ AllEmpty(calls[c])) =>
            /\ calls[c].fellBack
            /\ Len(calls[c].result) = Min(ClampedCount(calls[c].count), 30)
            /\ Elems(calls[c].result) \subseteq FallbackSet

\* No source contributed and fetchQueries(31) resolved.
C9_Witness ==
    \E c \in DOMAIN calls :
        /\ HasResolved(c) /\ AllEmpty(calls[c]) /\ calls[c].fellBack
        /\ calls[c].count = 31

\* C10: with mixStrategies = true, more than one source, every source
\* contributing, and count smaller than the concatenation's length but at least
\* the number of sources, every source is represented among the queries that
\* interleaving selects.
C10_InterleavingRepresentsEverySource ==
    \A c \in DOMAIN calls :
        ( /\ HasResolved(c)
          /\ config.mixStrategies /\ Len(config.sources) > 1
          /\ \A i \in Positions(calls[c]) : calls[c].parts[i] # <<>>
          /\ calls[c].validCount < Len(calls[c].deduped)
          /\ calls[c].count >= Len(config.sources) )
        => \A i \in Positions(calls[c]) :
               Elems(calls[c].parts[i]) \cap Elems(calls[c].selected) # {}

\* The source of the lookup caller c is in.
LookupSource(c) == config.sources[calls[c].idx]
Returned(c) == calls[c].pc = "resume"
Failed(kind) == kind \in {"throw", "garbage"}

\* C11 as stated: no failure inside an adapter leaves the adapter, and whenever
\* a request of the adapter was rejected or the body it got was unusable, the
\* adapter returns the empty list.
C11_EveryFailureYieldsTheEmptyList ==
    \A c \in DOMAIN calls :
        /\ calls[c].escaped = {}
        /\ ( /\ Returned(c)
             /\ calls[c].idx \in calls[c].threw \/ Failed(calls[c].lk.ended) )
           => calls[c].pending = <<>>

\* C11 amended: no rejected request and no unusable body leaves the adapter,
\* getFromSource or fetchQueries, and every configured source is processed; the
\* adapter returns the empty list when the request it ends on failed, and when
\* any request of an adapter other than the news adapter was rejected (the news
\* adapter goes on to scraping after a failed API request).
C11_NoFailureLeavesTheAdapter ==
    \A c \in DOMAIN calls :
        /\ calls[c].escaped = {}
        /\ HasResolved(c) => Len(calls[c].parts) = Len(config.sources)
        /\ Returned(c) =>
              /\ Failed(calls[c].lk.ended) => calls[c].pending = <<>>
              /\ (calls[c].idx \in calls[c].threw /\ LookupSource(c) # "news")
                     => calls[c].pending = <<>>

\* An adapter returned the empty list after one of its requests was rejected
\* and the body of its last request was unusable.
C11_Witness ==
    \E c \in DOMAIN calls :
        /\ Returned(c) /\ calls[c].idx \in calls[c].threw
        /\ calls[c].lk.ended = "garbage" /\ calls[c].pending = <<>>
        /\ calls[c].escaped = {}

\* C12: clearCache() leaves the cache without any entry, and a lookup is served
\* from the cache only if the source's list was stored after the last
\* clearCache() (and less than cacheMinutes ago): the next lookup of a source
\* after clearCache() invokes the adapter although the dropped entry had not
\* expired.
C12_ClearCachePurgesEveryEntry ==
    /\ [][ClearCache => cache' = EmptyCache]_vars
    /\ [](\A c \in DOMAIN calls :
            InLookup(c) =>
                /\ calls[c].lk.hit => calls[c].lk.fresh
                /\ ~calls[c].lk.hit =>
                       calls[c].lk.invoked = (IF LookupSource(c) \in SourceNames THEN 1 ELSE 0))

\* The second lookup of one source in a call, made while the list stored by
\* the first could not have expired, has sent a request: clearCache() ran in
\* between.
C12_Witness ==
    \E c \in DOMAIN calls :
        /\ config.sources = <<"reddit", "reddit">> /\ config.cacheMinutes = 2
        /\ calls[c].pc = "http" /\ calls[c].idx = 2
        /\ calls[c].parts[1] # <<>>
        /\ calls[c].lk.at < 2 * MsPerMinute
        /\ ~calls[c].lk.hit /\ calls[c].lk.requests = 1
        /\ "reddit" \notin DOMAIN cache

Extracting(adapter) == extraction.done /\ extraction.adapter = adapter

\* C13: the regional extraction returns exactly the title of the only item of
\* a payload, data.cards[0].content[0].items[0] in particular, when the item lies
\* under nested content/items/list/data containers of its card and its title has
\* 2 to 100 characters.
C13_NestedTitleIsExtracted ==
    \A path \in CnPaths, title \in CnTitles :
        ( /\ Extracting("cn-json")
          /\ extraction.body = CnCards(path, "title", title)
          /\ 2 <= Len(title) /\ Len(title) <= 100
          /\ ~StartsWith(title, "http") )
        => extraction.out = <<title>>

\* C14: the social-feed adapter returns only titles longer than 10 and shorter
\* than 100 characters, and from a listing of posts it returns every title of
\* 11 to 99 characters, in listing order.
C14_RedditTitlesBetween10And100 ==
    Extracting("reddit") =>
        /\ \A i \in 1..Len(extraction.out) :
               Len(extraction.out[i]) > 10 /\ Len(extraction.out[i]) < 100
        /\ \A titles \in SeqsUpTo(RedditTitles, MaxListing) :
               extraction.body = Listing(titles) =>
                   extraction.out =
                       SelectSeq(titles, LAMBDA t : 11 <= Len(t) /\ Len(t) <= 99)

\* A listing with titles of 10, 11, 99 and 100 characters among its posts was
\* reduced to fewer titles.
C14_Witness ==
    /\ Extracting("reddit")
    /\ \E titles \in SeqsUpTo(RedditTitles, MaxListing) :
          /\ extraction.body = Listing(titles)
          /\ Text(10) \in Elems(titles)
          /\ Text(11) \in Elems(titles) \/ Text(99) \in Elems(titles)
          /\ Len(extraction.out) >= 1 /\ Len(extraction.out) < Len(titles)

\* C15: the constructor keeps a supplied maxQueriesPerSource v as
\* min(max(v,1),50) and a supplied cacheMinutes v as min(max(v,1),1440), uses 10
\* and 30 for missing values, and never leaves the sources list empty.
C15_ConstructionClamps ==
    LET perSource == construction.maxQueriesPerSource
        minutes   == construction.cacheMinutes
    IN  /\ config.maxQueriesPerSource =
              (IF perSource.given THEN Min(Max(perSource.value, 1), 50) ELSE 10)
        /\ config.cacheMinutes =
              (IF minutes.given THEN Min(Max(minutes.value, 1), 1440) ELSE 30)
        /\ Len(config.sources) > 0

\* C16: within one fetchQueries call the lookups start in configured order,
\* the lookup of position i+1 only after the lists of positions 1..i have been
\* taken, and at most one transport request of the call is in flight.
C16_OneSourceAtATime ==
    \A c \in DOMAIN calls :
        /\ calls[c].inflight <= 1
        /\ calls[c].inflight = 1 <=> calls[c].pc = "http"
        /\ InLookup(c) =>
              /\ calls[c].started = [i \in 1..calls[c].idx |-> i]
              /\ Len(calls[c].parts) = calls[c].idx - 1

\* The request of the second source is in flight after the first source's
\* request was rejected.
C16_Witness ==
    \E c \in DOMAIN calls :
        /\ calls[c].pc = "http" /\ calls[c].idx = 2
        /\ calls[c].started = <<1, 2>> /\ calls[c].inflight = 1
        /\ 1 \in calls[c].threw

\* C17: a lookup invokes the adapter of its source at most once, the adapter
\* requests no URL twice, and a source whose fetch failed (the request its
\* adapter ended on was rejected or unusable, or, for an adapter other than the
\* news adapter, any request was rejected) contributes no query to the call.
C17_NoRetries ==
    \A c \in DOMAIN calls :
        /\ InLookup(c) =>
              /\ calls[c].lk.invoked <= 1
              /\ calls[c].lk.invoked = 0 => calls[c].lk.urls = <<>>
              /\ NoDuplicates(calls[c].lk.urls)
              /\ Len(calls[c].lk.urls) = calls[c].lk.requests
        /\ (Returned(c) /\ Failed(calls[c].lk.ended)) => calls[c].pending = <<>>
        /\ \A i \in calls[c].threw \cap Positions(calls[c]) :
               config.sources[i] # "news" => calls[c].parts[i] = <<>>

\* An adapter has returned after three requests to three URLs, the last of
\* which was rejected.
C17_Witness ==
    \E c \in DOMAIN calls :
        /\ Returned(c) /\ calls[c].lk.invoked = 1
        /\ Len(calls[c].lk.urls) = 3 /\ calls[c].lk.ended = "throw"
        /\ calls[c].pending = <<>>

\* C18: without an API key the news adapter sends no request to the headlines
\* API and scrapes once; with a key, a rejected or unusable API response is
\* followed by exactly one scraping request; the adapter always returns a list.
C18_NewsFallsBackToScrapingOnce ==
    \A c \in DOMAIN calls :
        (InLookup(c) /\ LookupSource(c) = "news" /\ ~calls[c].lk.hit) =>
            /\ calls[c].escaped = {}
            /\ ~newsApiKey => calls[c].lk.urls = <<"newsScrape">>
            /\ newsApiKey =>
                  /\ calls[c].lk.urls \in {<<"newsApi">>, <<"newsApi", "newsScrape">>}
                  /\ (Returned(c) /\ calls[c].lk.urls = <<"newsApi">>)
                         => calls[c].lk.ended = "ok"
                  /\ calls[c].idx \in calls[c].threw
                         => calls[c].lk.urls = <<"newsApi", "newsScrape">>

\* With a key configured the API request was rejected, scraping ran and the
\* adapter returned its headlines.
C18_Witness ==
    \E c \in DOMAIN calls :
        /\ Returned(c) /\ LookupSource(c) = "news" /\ newsApiKey
        /\ calls[c].idx \in calls[c].threw
        /\ calls[c].lk.urls = <<"newsApi", "newsScrape">>
        /\ calls[c].lk.ended = "ok" /\ calls[c].pending # <<>>

\* The fragments a report must not carry.
Sensitive == {Email, WindowsPath, HomePath, OtherPath, IpAddress, Token}

\* Every fragment of the posted payload.
PostedFragments ==
    Elems(report.posted.description)
        \cup UNION { UNION { Elems(line) : line \in Elems(field.value) } :
                       field \in Elems(report.posted.fields) }

\* C19: no email address, absolute file path, IP address or token-like
\* string of the message, the stack trace or a string value of
\* additionalContext is in the payload posted to the webhook.
C19_NoSensitiveTextIsPosted ==
    report.posts > 0 => PostedFragments \cap Sensitive = {}

\* C20: when errorReporting.enabled is false, sendErrorReport posts nothing
\* to the webhook, whatever the error and the additional context, and returns.
C20_DisabledReportingPostsNothing ==
    /\ [](report.enabled = "false" => report.posts = 0 /\ report.pc # "posting")
    /\ [][report.enabled = "false" /\ report.pc = "called"
              => report'.pc = "returned" /\ report'.posted = NoPayload]_vars

C20_Witness ==
    /\ report.enabled = "false"
    /\ report.pc = "returned"
    /\ shouldReportError(Join(report.message))
    /\ report.context # <<>>
    /\ report.stack # <<>>

\* The message matches one of the patterns of shouldReportError.
Filtered(message) ==
    \E pattern \in userConfigPatterns \cup expectedErrorPatterns :
        MatchesFrom(pattern, Join(message), 1)

ReportHandled == report.pc \in {"posting", "returned", "rejected"}

\* C21: an error whose message matches a user-configuration or expected-error
\* pattern never leads to a webhook request; every other error, with
\* reporting not disabled, leads to exactly one request.
C21_OnlyUnfilteredErrorsArePosted ==
    ReportHandled =>
        IF Filtered(report.message)
        THEN report.posts = 0 /\ report.pc = "returned"
        ELSE report.enabled # "false" => report.posts = 1

C21_Witness ==
    /\ report.pc = "returned"
    /\ report.enabled = "true"
    /\ report.message = <<"crashed", "net::err_aborted">>
    /\ report.context # <<>>
    /\ report.posts = 0

\* C30: whatever the error, the additional context and the outcome of the
\* webhook request, sendErrorReport's promise is not rejected and at most one
\* request is posted.
C30_ReportNeverThrowsNorRetries ==
    /\ [](report.pc # "rejected" /\ report.posts <= 1)
    /\ [][report.pc = "posting" => report'.pc = "returned" /\ report'.posts = 1]_vars

C30_Witness ==
    /\ report.pc = "returned"
    /\ report.outcome \in {"http error", "timeout"}
    /\ report.posts = 1
    /\ report.context # <<>>

\* C24: no string returned by the regional adapter, from a JSON body or from
\* the HTML page, starts with "http", whichever key it was taken from.
C24_NoUrlIsReturned ==
    Extracting("cn-json") \/ Extracting("cn-html") =>
        \A i \in 1..Len(extraction.out) : ~StartsWith(extraction.out[i], "http")

\* C25 as stated: every adapter returns non-empty strings whose length is
\* within a minimum and a maximum (100 characters at most).
C25_EveryAdapterChecksBothBounds ==
    extraction.done =>
        \A i \in 1..Len(extraction.out) :
            extraction.out[i] # "" /\ Len(extraction.out[i]) < 100

\* The lengths each adapter accepts.
Accepts(adapter, t) ==
    CASE adapter = "trends"                 -> t # ""
      [] adapter = "reddit"                 -> 10 < Len(t) /\ Len(t) < 100
      [] adapter = "news-api"               -> 10 < Len(t)
      [] adapter = "news-scrape"            -> 10 < Len(t) /\ Len(t) < 100
      [] adapter \in {"cn-json", "cn-html"} -> 2 < Len(t) /\ Len(t) < 100
      [] adapter = "wikipedia"              -> 3 < Len(t)

\* C25: every adapter returns non-empty strings only; the social-feed and
\* news-scraping adapters return lengths 11 to 99, the regional adapter 3 to
\* 99, the news API path lengths above 10 and the encyclopedic adapter
\* lengths above 3 with no maximum, the trend adapter any non-empty string.
C25_AdapterLengthChecks ==
    extraction.done =>
        \A i \in 1..Len(extraction.out) :
            extraction.out[i] # "" /\ Accepts(extraction.adapter, extraction.out[i])

\* The encyclopedic adapter dropped a title of 3 characters and returned one
\* of 100.
C25_Witness ==
    /\ Extracting("wikipedia")
    /\ extraction.body =
          Body(JObj(<<Member("query", JObj(<<Member("random",
                   TitleObjects(<<Text(3), Text(100)>>))>>))>>))
    /\ extraction.out = <<Text(100)>>

\* C22: the regional adapter requests its two JSON endpoints in order, the
\* second only when the first yielded nothing, and whenever neither yields a
\* query, for lack of usable items or because a request failed, it requests
\* the HTML board page; it returns without the HTML page only what a JSON
\* endpoint yielded.
C22_RegionalCascade ==
    \A c \in DOMAIN calls :
        Returned(c) /\ LookupSource(c) = "cn-news" /\ calls[c].lk.invoked = 1 =>
            /\ calls[c].lk.urls \in
                   {<<"cn1">>, <<"cn1", "cn2">>, <<"cn1", "cn2", "cnHtml">>}
            /\ Len(calls[c].lk.urls) < 3 => calls[c].pending # <<>>

\* A source lookup of caller c starts in this step.
LookupBegins(c) ==
    calls'[c].started # calls[c].started /\ calls'[c].started # <<>>

\* C23: the cleaning step at the start of every source lookup removes every
\* cache entry, of any source, whose expiry is not after the current time, and
\* leaves the other entries as they are; an expired entry is in the cache
\* after the step only if the lookup itself stored it anew.
C23_LazyEviction ==
    [][\A c \in DOMAIN calls :
          LookupBegins(c) =>
              LET s       == config.sources[calls'[c].idx]
                  expired == {k \in DOMAIN cache : cache[k].expires <= now}
              IN  /\ calls'[c].lk.evicted = expired
                  /\ \A k \in expired :
                         k \in DOMAIN cache' => k = s /\ cache'[k].expires > now'
                  /\ \A k \in DOMAIN cache \ expired :
                         k \in DOMAIN cache' /\ (k # s => cache'[k] = cache[k])]_vars

\* A lookup whose cleaning step removed the expired entry of another source
\* and kept the entry of its own source, which it then read.
C23_Witness ==
    \E c \in DOMAIN calls :
        /\ InLookup(c)
        /\ calls[c].lk.hit
        /\ calls[c].lk.evicted \ {LookupSource(c)} # {}
        /\ LookupSource(c) \in DOMAIN cache

\* C26: allQueries is, in configured source order, the concatenation of the
\* first maxQueriesPerSource elements of what each source lookup returned; it
\* holds at most maxQueriesPerSource elements per source occurrence and at
\* most |sources| x maxQueriesPerSource elements.
C26_PerSourceCapAndOrder ==
    /\ [](\A c \in DOMAIN calls :
             /\ \A i \in 1..Len(calls[c].parts) :
                    Len(calls[c].parts[i]) <= config.maxQueriesPerSource
             /\ Len(calls[c].parts) <= Len(config.sources)
             /\ Len(calls[c].allQueries)
                    <= Len(config.sources) * config.maxQueriesPerSource)
    /\ [][\A c \in DOMAIN calls :
             calls[c].pc = "resume" /\ calls'[c].idx = calls[c].idx + 1 =>
                 LET first == Slice(calls[c].pending, config.maxQueriesPerSource)
                 IN  /\ calls'[c].allQueries = calls[c].allQueries \o first
                     /\ calls'[c].parts = Append(calls[c].parts, first)
                     /\ Len(calls'[c].parts) = calls[c].idx]_vars

\* The second occurrence of a source reads a cached list longer than
\* maxQueriesPerSource, of which the first occurrence contributed the first
\* maxQueriesPerSource elements.
C26_Witness ==
    \E c \in DOMAIN calls :
        /\ Returned(c)
        /\ calls[c].idx = 2
        /\ calls[c].lk.hit
        /\ config.maxQueriesPerSource > 1
        /\ Len(calls[c].pending) > config.maxQueriesPerSource
        /\ calls[c].allQueries = Slice(calls[c].pending, config.maxQueriesPerSource)

\* C28: a source lookup that ends with an empty list after a rejected request
\* or an unusable body has handed this.log a warn-level entry naming the source,
\* and a call that returns the local fallback list has handed it a warn-level
\* entry before.
C28_FailuresAreWarnedAbout ==
    \A c \in DOMAIN calls :
        /\ ( /\ Returned(c)
              /\ calls[c].pending = <<>>
              /\ (Failed(calls[c].lk.ended) \/ calls[c].idx \in calls[c].threw) )
           => LookupSource(c) \in calls[c].lk.warned
        /\ HasResolved(c) /\ calls[c].fellBack => calls[c].warnedFallback

\* A lookup of the second source ended empty on an unusable body, after the
\* first source's request was rejected.
C28_Witness ==
    \E c \in DOMAIN calls :
        /\ Returned(c)
        /\ calls[c].idx = 2
        /\ calls[c].pending = <<>>
        /\ calls[c].lk.ended = "garbage"
        /\ 1 \in calls[c].threw
        /\ calls[c].lk.warned = {LookupSource(c)}

\* The text occurs in the string.
Contains(s, text) == MatchesFrom(<<text>>, s, 1)

\* C27: a fetchHttp call hands exactly one request to the client; when the
\* request fails, the call has handed this.log exactly one error-level entry,
\* which contains the locator, and raises the very error the client rejected
\* with; a call that returns has logged nothing.
C27_TransportFailureHandling ==
    /\ transport.pc \in {"requesting", "returned", "failed"} =>
           /\ Len(transport.requests) = 1
           /\ transport.requests[1].url = transport.url
    /\ transport.pc = "failed" =>
           /\ Len(transport.log) = 1
           /\ transport.log[1].level = "error"
           /\ Contains(transport.log[1].message, transport.url)
           /\ transport.raised = transport.cause
    /\ transport.pc = "returned" => transport.log = <<>>

C27_Witness ==
    /\ transport.pc = "failed"
    /\ transport.cause = ErrorValue("timeout of 8000ms exceeded")
    /\ transport.options.timeout = 8000
    /\ Len(transport.log) = 1

\* C29: under SpecLive, where every request settles, every fetchQueries call
\* resolves; a source lookup sends at most three requests, and a lookup of
\* local-fallback sends none.
C29_EveryCallResolves ==
    /\ [](\A c \in LiveCallers :
             /\ calls[c].lk.requests <= 3
             /\ calls[c].lk.requests = Len(calls[c].lk.urls)
             /\ InLookup(c) /\ LookupSource(c) = "local-fallback"
                    => calls[c].lk.requests = 0)
    /\ \A c \in LiveCallers : InLookup(c) ~> HasResolved(c)

\* A lookup of the regional source returned after three requests.
C29_Witness ==
    \E c \in LiveCallers :
        /\ Returned(c)
        /\ LookupSource(c) = "cn-news"
        /\ calls[c].lk.requests = 3

\* C31: every cache entry holds a non-empty list; a lookup is served from the
\* cache only after a non-empty list was stored, and when a lookup of a source
\* ended with the empty list the very next lookup of that source, within
\* cacheMinutes, misses the cache and invokes the adapter again.
C31_EmptyResultsAreNeverCached ==
    /\ \A s \in DOMAIN cache : Len(cache[s].queries) > 0
    /\ \A c \in DOMAIN calls :
           InLookup(c) =>
               /\ calls[c].lk.hit => calls[c].lk.fresh
               /\ ( /\ calls[c].idx > 1
                    /\ config.sources[calls[c].idx - 1] = LookupSource(c)
                    /\ calls[c].parts[calls[c].idx - 1] = <<>> )
                  => /\ ~calls[c].lk.hit
                     /\ calls[c].lk.invoked = 1
                     /\ LookupSource(c) \in RemoteSources => calls[c].lk.requests >= 1

\* The first lookup of a source listed twice ended empty after a request, and
\* the second lookup, in the same call, has sent a request of its own.
C31_Witness ==
    \E c \in DOMAIN calls :
        /\ InLookup(c) /\ calls[c].idx = 2
        /\ config.sources[1] = config.sources[2]
        /\ calls[c].parts[1] = <<>>
        /\ 1 \notin calls[c].threw
        /\ calls[c].lk.requests = 1
        /\ calls[c].lk.at < CacheMs

\* The list handed to interleaveQueries is one that fetchQueries can build:
\* non-empty strings, at most |sources| x maxQueriesPerSource of them.
InterleaveInput(queries) ==
    /\ \A i \in 1..Len(queries) : queries[i] # ""
    /\ Len(queries) <= Len(config.sources) * config.maxQueriesPerSource

C33_ClearCacheDoesNotCancelAStore ==
    /\ [][\A c \in DOMAIN calls :
             ( /\ calls[c].pc = "http" /\ calls[c].lk.cleared
               /\ calls'[c].pc = "resume" /\ calls'[c].pending # <<>> )
             => /\ LookupSource(c) \in DOMAIN cache'
                /\ cache'[LookupSource(c)] =
                       [queries |-> calls'[c].pending, expires |-> now' + CacheMs]
                /\ calls[c].idx \in calls'[c].raced]_vars
    /\ [](\A c \in DOMAIN calls :
             ( /\ InLookup(c) /\ calls[c].idx > 1
               /\ calls[c].idx - 1 \in calls[c].raced
               /\ config.sources[calls[c].idx - 1] = LookupSource(c)
               /\ calls[c].lk.fresh )
             => /\ calls[c].lk.hit
                /\ calls[c].lk.requests = 0 /\ calls[c].lk.invoked = 0
                /\ calls[c].pc = "resume"
                /\ Capped(calls[c].pending, config) = calls[c].parts[calls[c].idx - 1])

\* clearCache() ran while the first lookup of a source listed twice awaited a
\* request; the list was stored all the same, and the second lookup has been
\* served it from the cache with no request.
C33_Witness ==
    \E c \in DOMAIN calls :
        /\ calls[c].pc = "resume" /\ calls[c].idx = 2
        /\ 1 \in calls[c].raced
        /\ config.sources[1] = config.sources[2]
        /\ calls[c].lk.hit /\ calls[c].lk.requests = 0
        /\ calls[c].pending # <<>>
        /\ LookupSource(c) \in DOMAIN cache
        /\ cache[LookupSource(c)].queries = calls[c].pending

\* The earlier positions of the call's list that name the source being looked up.
EarlierOccurrences(c) ==
    {j \in 1..(calls[c].idx - 1) : config.sources[j] = LookupSource(c)}

\* The latest of them.
PreviousOccurrence(c) ==
    CHOOSE j \in EarlierOccurrences(c) : \A k \in EarlierOccurrences(c) : k <= j

\* The lookup of caller c is of a source that the call has looked up before,
\* and that lookup yielded a non-empty list.
SecondOfTwo(c) ==
    /\ InLookup(c)
    /\ EarlierOccurrences(c) # {}
    /\ calls[c].parts[PreviousOccurrence(c)] # <<>>

\* The second lookup was a cache hit that contributes the first one's items.
ServedAgain(c) ==
    /\ calls[c].lk.hit /\ calls[c].lk.invoked = 0 /\ calls[c].lk.requests = 0
    /\ calls[c].pc = "resume"
    /\ Capped(calls[c].pending, config) = calls[c].parts[PreviousOccurrence(c)]

\* With deduplicate set the items contributed twice appear once in the result.
RepeatsSurviveOnlyUndeduplicated ==
    \A c \in DOMAIN calls :
        ( /\ HasResolved(c) /\ config.deduplicate /\ ~calls[c].fellBack ) =>
            NoDuplicates(calls[c].result)

\* C34 as stated: when a source is listed twice and its first lookup in a call
\* yields a non-empty list, the second lookup in the same call is served from
\* the cache with no adapter invocation and contributes the same items, which
\* survive into the result only when deduplicate is false.
C34_SecondOccurrenceIsACacheHit ==
    /\ \A c \in DOMAIN calls : SecondOfTwo(c) => ServedAgain(c)
    /\ RepeatsSurviveOnlyUndeduplicated

\* C34 amended: the same, provided that clearCache() does not run and the entry
\* does not reach its expiry before the second lookup.
C34_SecondOccurrenceHitsWhileEntryLasts ==
    /\ \A c \in DOMAIN calls :
           (SecondOfTwo(c) /\ calls[c].lk.fresh) => ServedAgain(c)
    /\ RepeatsSurviveOnlyUndeduplicated

\* A call on a list naming a source twice, deduplicate false, has resolved:
\* the first lookup sent a request, the second was served from the cache, and
\* an item contributed twice is twice in the result.
C34_Witness ==
    \E c \in DOMAIN calls :
        /\ HasResolved(c) /\ ~config.deduplicate
        /\ Len(config.sources) = 2 /\ config.sources[1] = config.sources[2]
        /\ config.sources[1] \in RemoteSources
        /\ calls[c].parts[1] # <<>> /\ calls[c].parts[2] = calls[c].parts[1]
        /\ NoDuplicates(calls[c].parts[1])
        /\ ~NoDuplicates(calls[c].result)

\* C35: with sources = <<"local-fallback">>, a lookup made less than
\* cacheMinutes after the sample was stored, with no clearCache() since, is
\* served that sample from the cache and leaves the entry as it is; the entry
\* is replaced only by a lookup that missed the cache; and every call returns
\* only items among the first maxQueriesPerSource of the sample its lookup got.
C35_LocalFallbackSampleIsReused ==
    [][config.sources = <<"local-fallback">> =>
          /\ \A c \in DOMAIN calls :
                /\ (LookupBegins(c) /\ calls'[c].lk.fresh) =>
                       /\ "local-fallback" \in DOMAIN cache
                       /\ calls'[c].lk.hit /\ calls'[c].lk.invoked = 0
                       /\ calls'[c].pending = cache["local-fallback"].queries
                       /\ "local-fallback" \in DOMAIN cache'
                       /\ cache'["local-fallback"].queries = cache["local-fallback"].queries
                /\ (calls[c].pc = "resume" /\ calls'[c].pc = "done") =>
                       /\ Len(calls'[c].result) >= 1
                       /\ ~calls'[c].fellBack
                       /\ Elems(calls'[c].result) \subseteq
                              Elems(Slice(calls[c].pending, config.maxQueriesPerSource))
          /\ ( /\ "local-fallback" \in DOMAIN cache /\ "local-fallback" \in DOMAIN cache'
               /\ cache'["local-fallback"] # cache["local-fallback"] )
             => \E c \in DOMAIN calls : LookupBegins(c) /\ ~calls'[c].lk.hit]_vars

\* A later call on sources = <<"local-fallback">>, made after the clock has
\* advanced, has been served the 20-item sample stored by an earlier call, of
\* which maxQueriesPerSource limits what it can return.
C35_Witness ==
    \E c \in DOMAIN calls :
        /\ config.sources = <<"local-fallback">>
        /\ calls[c].pc = "resume" /\ calls[c].lk.hit /\ calls[c].lk.invoked = 0
        /\ "local-fallback" \in DOMAIN cache
        /\ calls[c].lk.at > cache["local-fallback"].expires - CacheMs
        /\ calls[c].pending = cache["local-fallback"].queries
        /\ Len(calls[c].pending) = LocalSample
        /\ config.maxQueriesPerSource < LocalSample

\* C36: a fetchQueries call that is served from the cache leaves every cache
\* entry as it was, list and expiry: capping, deduplication, interleaving,
\* shuffling and truncation work on other arrays; and no step of the engine
\* changes the configuration.
C36_CachedListsAndConfigAreNotModified ==
    /\ [][/\ config' = config
          /\ (arrays.pc = "ready" /\ arrays'.pc = "done") => cache' = cache]_vars
    /\ [](arrays.pc = "done" =>
             \A s \in DOMAIN cache : cache[s].queries = arrays.before[s])

\* A call served from the cache has returned fewer queries than the cached
\* list holds, allQueries having been shuffled in place, and the cached list
\* is as before.
C36_Witness ==
    /\ arrays.pc = "done" /\ arrays.inPlace
    /\ FinalObject(config) = "allQueries"
    /\ Len(config.sources) = 2
    /\ \E s \in DOMAIN cache :
          /\ cache[s].queries = arrays.before[s]
          /\ Len(arrays.result) < Len(cache[s].queries)
          /\ config.maxQueriesPerSource < Len(cache[s].queries)
    /\ arrays.allQueries # HitLoop(1, arrays.before, <<>>).allQueries

\* C37: state.reconnectAttempts stays in 0..10 and is 0 after every open; once
\* 10 reconnects have been tried with no open in between, a further failure
\* sets no timer; at most one reconnect timer is pending at any time, none
\* while a socket is connecting or open, and the events of one socket set at
\* most one timer.
C37_ReconnectIsBounded ==
    /\ [](/\ socket.reconnectAttempts \in 0..MaxReconnects
          /\ socket.tried <= MaxReconnects
          /\ Len(socket.timers) <= 1
          /\ \A i \in 1..Len(socket.sockets) :
                 /\ socket.sockets[i].scheduled <= 1
                 /\ Live(socket.sockets[i]) =>
                        /\ i = socket.ws /\ socket.timers = <<>>
                        /\ \A j \in 1..Len(socket.sockets) : Live(socket.sockets[j]) => j = i
          /\ (socket.tried = MaxReconnects /\ socket.toast) => socket.timers = <<>>)
    /\ [][/\ \A i \in 1..Len(socket.sockets) :
                (socket.sockets[i].status = "connecting" /\ socket'.sockets[i].status = "open")
                    => socket'.reconnectAttempts = 0
          /\ socket.reconnectAttempts = MaxReconnects =>
                Len(socket'.timers) <= Len(socket.timers)]_vars

\* Ten reconnects in a row have failed, the last socket has closed, and the
\* page has given up: no timer is pending.
C37_Witness ==
    /\ socket.reconnectAttempts = MaxReconnects /\ socket.tried = MaxReconnects
    /\ socket.toast /\ socket.timers = <<>>
    /\ Len(socket.sockets) >= 2
    /\ \A i \in 1..Len(socket.sockets) : socket.sockets[i].status = "closed"
    /\ \E i \in 1..Len(socket.sockets) : socket.sockets[i].scheduled = 1

\* C38: after any sequence of addLogEntry, filterLogs and clearLogs the log
\* container holds at most 500 rendered entries, and every rendered entry
\* matches the selected level filter.
C38_LogViewIsCappedAndFiltered ==
    /\ Len(logView.children) <= RenderCap
    /\ \A i \in 1..Len(logView.children) :
           Shown(logView.currentLogFilter, logView.children[i])

====
